---- MODULE Spec2Model ----
(***************************************************************************)
(* State-machine model of the map components of heinrichnel/Map:           *)
(*   PropertyMap        (Leaflet map,  src/unnamed/part_002)               *)
(*   PropertyGoogleMap  (Google map,   src/unnamed/part_001)               *)
(*                                                                         *)
(* React is modelled at the granularity of a committed render: an action   *)
(* is one event handler, timer callback or promise continuation, followed  *)
(* by the re-renders it causes and the effects those renders run.  State   *)
(* updates made in one handler are batched into one render.  A setter      *)
(* given a primitive equal to the current value causes no render; a setter *)
(* given a fresh object always does.                                       *)
(***************************************************************************)
EXTENDS Integers, Sequences, FiniteSets, TLC

(***************************************************************************)
(* Bounds of the model.                                                    *)
(***************************************************************************)
MaxAreasReqs == 2
MaxEmiratesReqs == 1
MaxGisTimers == 2
MaxMarkerTimers == 2
MaxPropGisReqs == 1
MaxGmRuns == 2
MaxDispatched == 1
MaxGmDataLayers == 2
MaxGmBoundaryLayers == 2

(***************************************************************************)
(* Values.                                                                 *)
(***************************************************************************)
Null == [null |-> TRUE]
NoError == Null

Emirates == {"Dubai", "Sharjah"}
LayerTypes == {"parcels", "zoning"}

InitFailedMsg == [message |-> "GIS API initialization failed. Some features may be limited."]
EmiratesFailedMsg == [message |-> "Failed to load emirates boundaries"]
AreasFailedMsg(e) == [message |-> "Failed to load area boundaries for", emirate |-> e]
LayersFailedMsg == [message |-> "Failed to load GIS data"]

\* A JavaScript value in a coordinate position: a number, NaN, or no number.
Num(v) == [kind |-> "number", val |-> v]
NaN == [kind |-> "NaN"]
Undefined == [kind |-> "undefined"]
IsValidCoord(c) == c.kind = "number"

Loc(lat, lng) == [lat |-> Num(lat), lng |-> Num(lng)]
Property(id, loc) == [id |-> id, location |-> loc]

\* The property lists the context hands to PropertyMap.
P1 == Property(1, Loc(1, 2))
P2 == Property(2, Loc(3, 1))
PBad == Property(3, [lat |-> NaN, lng |-> Num(1)])
MarkerLists == {<< >>, <<PBad>>, <<P1>>, <<P1, P2>>}

\* part_002:144-147: properties the bounds effect has to tell apart: no
\* location, a lng that is not a number, and numbers outside the range the
\* running north/south/east/west start from.
PNoLoc == Property(4, Null)
PUndef == Property(5, [lat |-> Num(2), lng |-> Undefined])
PFar == Property(6, Loc(95, 185))
PFarSouth == Property(7, Loc(-95, -185))
BoundsProperties == {P1, P2, PBad, PNoLoc, PUndef, PFar, PFarSouth}
BoundsMarkerLists ==
  {<< >>} \cup {<<p>> : p \in BoundsProperties}
          \cup {<<p, q>> : p \in BoundsProperties, q \in {P2, PBad, PFar}}

\* The enabledGisLayers prop: not given (the default parameter value builds
\* a fresh ['parcels'] array on every render) or an array held by the parent.
DefaultLayers == [given |-> FALSE, layers |-> {"parcels"}]
GivenLayers(L) == [given |-> TRUE, layers |-> L]
LayersProps == {DefaultLayers} \cup {GivenLayers(L) : L \in SUBSET LayerTypes}

VARIABLES
  \* ---- PropertyMap: lifecycle and service
  mounted,            \* the component is mounted
  gisInit,            \* gisService.initialize(): "pending", "resolved", "rejected"
  initCalls,          \* number of gisService.initialize() calls
  \* ---- PropertyMap: useState
  mapBounds, mapCenter, mapZoom,
  gisLayers, gisLoading, gisError, gisInitialized, propertyGisData,
  emiratesBoundaries, areasBoundaries, showEmirates, showAreas, currentEmirate,
  \* ---- PropertyMap: props and context
  enabledGisLayers, propertyMarkers, propertyDetails, loadPropertyMarkers,
  \* ---- PropertyMap: timers and requests in flight
  emiratesReqs,       \* getEmiratesBoundaries() calls in flight (a count)
  emiratesIssued,     \* getEmiratesBoundaries() calls made
  areasReqs,          \* getAreasBoundaries(e) calls in flight: {[id, emirate]}
  areasIssued,        \* getAreasBoundaries calls made (the last id)
  areasArrivals,      \* their responses, in order of arrival: <<[id, emirate, ok]>>
  markerTimers,       \* pending 300 ms timers, oldest first: <<[bounds]>>
  markerCleanup,      \* the last run of the marker effect left a cleanup whose
                      \* timer is still pending (it is the newest timer)
  markerScheduled,    \* 300 ms timers created
  markerCleared,      \* 300 ms timers cleared before they fired
  loadCalls,          \* loadPropertyMarkers calls made
  lastLoadCall,       \* the argument of the last one
  gisTimers,          \* pending 500 ms timers, oldest first: <<[bounds, layers]>>
  gisScheduled,       \* 500 ms timers created
  layersReqs,         \* getLayers calls in flight: <<[bounds, layers]>>
  layersCalls,        \* getLayers calls made
  layersRejected,     \* getLayers calls that rejected
  propGisReqs,        \* getPropertyGisData(id) calls in flight: <<id>>
  propGisIssued       \* getPropertyGisData calls made

pmVars == <<mounted, gisInit, initCalls, mapBounds, mapCenter, mapZoom,
            gisLayers, gisLoading, gisError, gisInitialized, propertyGisData,
            emiratesBoundaries, areasBoundaries, showEmirates, showAreas,
            currentEmirate, enabledGisLayers, propertyMarkers, propertyDetails,
            loadPropertyMarkers, emiratesReqs, emiratesIssued, areasReqs,
            areasIssued, areasArrivals, markerTimers, markerCleanup,
            markerScheduled, markerCleared, loadCalls, lastLoadCall, gisTimers,
            gisScheduled, layersReqs, layersCalls, layersRejected, propGisReqs,
            propGisIssued>>

VARIABLES
  \* ---- PropertyGoogleMap: loader, refs and the service
  gm_isLoaded,          \* useJsApiLoader().isLoaded
  gm_service,           \* googleMapsServiceRef.current: "none" or "created"
  gm_init,              \* its initialize(): "none", "pending", "rejected",
                        \* "resolvedTrue", "resolvedFalse" (the value resolved)
  gm_initCalls,         \* number of initialize() calls
  gm_mapRef,            \* mapRef.current: 0 (null) or the map instance
  gm_maps,              \* map instances created
  gm_boundsReady,       \* mapRef.current.getBounds() returns bounds
  gm_gisLayersRef,      \* gisLayersRef.current: [emirates, areas, data]
  \* ---- PropertyGoogleMap: useState
  gm_selectedProperty, gm_mapLoaded, gm_showEmirates, gm_showAreas,
  gm_currentEmirate, gm_enabledLayers, gm_gisInitialized,
  \* ---- PropertyGoogleMap: context
  gm_propertyMarkers, gm_selectedPropertyId, gm_mapMode,
  \* ---- PropertyGoogleMap: the data layers created and the loads running
  gm_layers,            \* google.maps.Data objects: <<[kind, name, map, showAreas]>>
  gm_runs,              \* loadEmiratesBoundaries / loadAreaBoundaries /
                        \* loadGisLayers calls suspended at an await
  gm_markersRef,        \* markersRef.current
  gm_clusterer,         \* clustererRef.current
  gm_replaced,          \* clusterers replaced in clustererRef with markers left
  gm_apiKey             \* the apiKey prop

gmVars == <<gm_isLoaded, gm_service, gm_init, gm_initCalls, gm_mapRef, gm_maps,
            gm_boundsReady, gm_gisLayersRef, gm_selectedProperty, gm_mapLoaded,
            gm_showEmirates, gm_showAreas, gm_currentEmirate, gm_enabledLayers,
            gm_gisInitialized, gm_propertyMarkers, gm_selectedPropertyId,
            gm_mapMode, gm_layers, gm_runs, gm_markersRef, gm_clusterer,
            gm_replaced, gm_apiKey>>

\* MapController (part_000:238-275): its props, and the calls it has made on
\* the map.
VARIABLES
  mc_bounds, mc_center, mc_zoom, mc_calls

mcVars == <<mc_bounds, mc_center, mc_zoom, mc_calls>>

\* The details of the showAreasForEmirate events dispatched on the document
\* so far, oldest first (part_002:226-229).
VARIABLES
  dispatched
docVars == <<dispatched>>

\* getPropertyMarkerIcon (part_001:428-460): the property of a Marker, the
\* selectedPropertyId of the render, and the icon the render gave the Marker.
VARIABLES
  icon_property, icon_selectedPropertyId, icon_icon
iconVars == <<icon_property, icon_selectedPropertyId, icon_icon>>

\* The property list of PropertyMap (part_002:428-482): the context values of
\* the render (list_propertyMarkers is the context's propertyMarkers with
\* any value of its properties), and what the render made of them.
VARIABLES
  list_propertyMarkers, list_searchResults, list_isLoading, list_error,
  list_view,               \* "loading", "error" or "map" (part_002:429, 441, 466)
  list_displayProperties,  \* displayProperties, Null while it is not computed
  list_noResults,          \* noResults, FALSE while it is not computed
  list_overlay             \* the overlay: "none", "loading", "noResults", "showing"
listVars == <<list_propertyMarkers, list_searchResults, list_isLoading,
              list_error, list_view, list_displayProperties, list_noResults,
              list_overlay>>

renderVars == <<iconVars, listVars>>

vars == <<pmVars, gmVars, mcVars, docVars, renderVars>>

\* The component as one record, so that a handler and the renders it causes
\* can be computed as a function of the state.
PM == [mounted |-> mounted, gisInit |-> gisInit, initCalls |-> initCalls,
       mapBounds |-> mapBounds, mapCenter |-> mapCenter, mapZoom |-> mapZoom,
       gisLayers |-> gisLayers, gisLoading |-> gisLoading, gisError |-> gisError,
       gisInitialized |-> gisInitialized, propertyGisData |-> propertyGisData,
       emiratesBoundaries |-> emiratesBoundaries,
       areasBoundaries |-> areasBoundaries, showEmirates |-> showEmirates,
       showAreas |-> showAreas, currentEmirate |-> currentEmirate,
       enabledGisLayers |-> enabledGisLayers, propertyMarkers |-> propertyMarkers,
       propertyDetails |-> propertyDetails,
       loadPropertyMarkers |-> loadPropertyMarkers,
       emiratesReqs |-> emiratesReqs, emiratesIssued |-> emiratesIssued,
       areasReqs |-> areasReqs, areasIssued |-> areasIssued,
       areasArrivals |-> areasArrivals, markerTimers |-> markerTimers,
       markerCleanup |-> markerCleanup, markerScheduled |-> markerScheduled,
       markerCleared |-> markerCleared, loadCalls |-> loadCalls,
       lastLoadCall |-> lastLoadCall, gisTimers |-> gisTimers,
       gisScheduled |-> gisScheduled, layersReqs |-> layersReqs,
       layersCalls |-> layersCalls, layersRejected |-> layersRejected,
       propGisReqs |-> propGisReqs, propGisIssued |-> propGisIssued]

SetPM(r) ==
  /\ mounted' = r.mounted /\ gisInit' = r.gisInit /\ initCalls' = r.initCalls
  /\ mapBounds' = r.mapBounds /\ mapCenter' = r.mapCenter /\ mapZoom' = r.mapZoom
  /\ gisLayers' = r.gisLayers /\ gisLoading' = r.gisLoading
  /\ gisError' = r.gisError /\ gisInitialized' = r.gisInitialized
  /\ propertyGisData' = r.propertyGisData
  /\ emiratesBoundaries' = r.emiratesBoundaries
  /\ areasBoundaries' = r.areasBoundaries
  /\ showEmirates' = r.showEmirates /\ showAreas' = r.showAreas
  /\ currentEmirate' = r.currentEmirate
  /\ enabledGisLayers' = r.enabledGisLayers
  /\ propertyMarkers' = r.propertyMarkers /\ propertyDetails' = r.propertyDetails
  /\ loadPropertyMarkers' = r.loadPropertyMarkers
  /\ emiratesReqs' = r.emiratesReqs /\ emiratesIssued' = r.emiratesIssued
  /\ areasReqs' = r.areasReqs /\ areasIssued' = r.areasIssued
  /\ areasArrivals' = r.areasArrivals
  /\ markerTimers' = r.markerTimers /\ markerCleanup' = r.markerCleanup
  /\ markerScheduled' = r.markerScheduled /\ markerCleared' = r.markerCleared
  /\ loadCalls' = r.loadCalls /\ lastLoadCall' = r.lastLoadCall
  /\ gisTimers' = r.gisTimers /\ gisScheduled' = r.gisScheduled
  /\ layersReqs' = r.layersReqs /\ layersCalls' = r.layersCalls
  /\ layersRejected' = r.layersRejected
  /\ propGisReqs' = r.propGisReqs /\ propGisIssued' = r.propGisIssued

(***************************************************************************)
(* React: state updates, renders and effects.                              *)
(***************************************************************************)
\* State, props and context values that are objects: setting one to a fresh
\* object is a change even when the content is equal.
ObjectFields == {"mapBounds", "mapCenter", "gisLayers", "propertyGisData",
                 "emiratesBoundaries", "areasBoundaries", "propertyMarkers",
                 "propertyDetails", "selectedProperty"}

Changed(name, old, new) ==
  IF name \in {"enabledGisLayers", "loadPropertyMarkers", "enabledLayers"}
  THEN TRUE
  ELSE IF name \in ObjectFields THEN new # Null \/ old # Null
  ELSE old # new

\* A working state w = [s, dirty]: s the component, dirty the names whose
\* value changed since the last render.
Set(w, name, val) ==
  [s |-> [w.s EXCEPT ![name] = val],
   dirty |-> IF Changed(name, w.s[name], val) THEN w.dirty \cup {name}
             ELSE w.dirty]

Max(a, b) == IF a >= b THEN a ELSE b
Min(a, b) == IF a <= b THEN a ELSE b

\* part_002:171-176 and 112-117: the bounds object built from mapBounds.
BoundsArg(mb) == [south |-> mb.sw[1], west |-> mb.sw[2],
                  north |-> mb.ne[1], east |-> mb.ne[2]]

\* The emirates effect without its gisInitialized guard.
EffEmiratesUnguarded(chg, cur, w) ==
  IF chg \cap {"gisInitialized", "showEmirates"} = {} THEN w
  ELSE IF ~cur.showEmirates THEN w
  ELSE [w EXCEPT !.s.emiratesReqs = @ + 1, !.s.emiratesIssued = @ + 1]

\* part_002:76-90
EffEmirates(chg, cur, w) ==
  IF chg \cap {"gisInitialized", "showEmirates"} = {} THEN w
  ELSE IF ~cur.gisInitialized \/ ~cur.showEmirates THEN w
  ELSE [w EXCEPT !.s.emiratesReqs = @ + 1, !.s.emiratesIssued = @ + 1]

\* part_002:93-107
EffAreas(chg, cur, w) ==
  IF chg \cap {"gisInitialized", "showAreas", "currentEmirate"} = {} THEN w
  ELSE IF ~cur.gisInitialized \/ ~cur.showAreas THEN w
  ELSE [w EXCEPT !.s.areasIssued = @ + 1,
                 !.s.areasReqs = @ \cup {[id |-> w.s.areasIssued + 1,
                                          emirate |-> cur.currentEmirate]}]

\* A marker effect that returns no cleanup.
MarkerEffectNoCleanup(s) == s

\* part_002:126: the cleanup the marker effect returns, clearTimeout(timer).
MarkerEffectCleanup(s) ==
  IF s.markerCleanup
  THEN [s EXCEPT !.markerTimers = SubSeq(@, 1, Len(@) - 1),
                 !.markerCleanup = FALSE,
                 !.markerCleared = @ + 1]
  ELSE s

\* part_002:110-128
EffMarkers(chg, cur, w) ==
  IF chg \cap {"mapBounds", "loadPropertyMarkers"} = {} THEN w
  ELSE LET c == MarkerEffectCleanup(w.s) IN
       IF cur.mapBounds = Null THEN [w EXCEPT !.s = c]
       ELSE [w EXCEPT !.s =
               [c EXCEPT !.markerTimers =
                           Append(@, [bounds |-> BoundsArg(cur.mapBounds)]),
                         !.markerCleanup = TRUE,
                         !.markerScheduled = @ + 1]]

\* part_002:138-155: the running north/south/east/west and the count of the
\* properties with a valid location, over the list ps.
RECURSIVE Extent(_, _)
Extent(ps, acc) ==
  IF ps = << >> THEN acc
  ELSE LET p == Head(ps)
           ok == /\ p.location # Null
                 /\ IsValidCoord(p.location.lat)
                 /\ IsValidCoord(p.location.lng)
       IN Extent(Tail(ps),
                 IF ok
                 THEN [north |-> Max(acc.north, p.location.lat.val),
                       south |-> Min(acc.south, p.location.lat.val),
                       east |-> Max(acc.east, p.location.lng.val),
                       west |-> Min(acc.west, p.location.lng.val),
                       valid |-> acc.valid + 1]
                 ELSE acc)

\* The running values started from the origin instead of the far corners.
ExtentOfOrigin(ps) ==
  Extent(ps, [north |-> 0, south |-> 0, east |-> 0, west |-> 0, valid |-> 0])

ExtentOf(ps) ==
  Extent(ps, [north |-> -90, south |-> 90, east |-> -180, west |-> 180,
              valid |-> 0])

\* part_002:132-133: the early return of the bounds effect.
BoundsEffectSkips(cur) ==
  \/ cur.propertyMarkers = Null
  \/ cur.propertyMarkers.properties = << >>
  \/ cur.mapBounds # Null

\* A bounds effect that recomputes the bounds on every change of the markers.
EffBoundsAlways(chg, cur, w) ==
  IF "propertyMarkers" \notin chg THEN w
  ELSE IF cur.propertyMarkers = Null THEN w
  ELSE LET x == ExtentOf(cur.propertyMarkers.properties) IN
       IF x.valid > 0
       THEN Set(w, "mapBounds", [sw |-> <<x.south, x.west>>,
                                 ne |-> <<x.north, x.east>>])
       ELSE w

\* part_002:131-160
EffBounds(chg, cur, w) ==
  IF chg \cap {"propertyMarkers", "mapBounds"} = {} THEN w
  ELSE IF BoundsEffectSkips(cur) THEN w
  ELSE LET x == ExtentOf(cur.propertyMarkers.properties) IN
       IF x.valid > 0
       THEN Set(w, "mapBounds", [sw |-> <<x.south, x.west>>,
                                 ne |-> <<x.north, x.east>>])
       ELSE w

\* part_002:193: the dependencies of the GIS effect differ from the last
\* render's.  A prop left at its default is a fresh array on every render.
GisDepsChanged(chg, cur) ==
  \/ chg \cap {"mapBounds", "enabledGisLayers", "gisInitialized"} # {}
  \/ ~cur.enabledGisLayers.given

\* part_002:163-193.  The function clearing the timer is the value of the
\* promise fetchGisData returns; the effect itself returns nothing.
EffGis(chg, cur, w) ==
  IF ~GisDepsChanged(chg, cur) THEN w
  ELSE IF \/ cur.mapBounds = Null
          \/ cur.enabledGisLayers.layers = {}
          \/ ~cur.gisInitialized
       THEN w
  ELSE LET w1 == Set(Set(w, "gisLoading", TRUE), "gisError", NoError) IN
       [w1 EXCEPT !.s.gisTimers =
                    Append(@, [bounds |-> BoundsArg(cur.mapBounds),
                               layers |-> cur.enabledGisLayers.layers]),
                  !.s.gisScheduled = @ + 1]

\* part_002:196-210
EffPropGis(chg, cur, w) ==
  IF chg \cap {"propertyDetails", "gisInitialized"} = {} THEN w
  ELSE IF cur.propertyDetails = Null \/ ~cur.gisInitialized THEN w
  ELSE [w EXCEPT !.s.propGisReqs = Append(@, cur.propertyDetails.id),
                 !.s.propGisIssued = @ + 1]

\* A center effect that moves the map and leaves the zoom as it is.
EffCenterOnly(chg, cur, w) ==
  IF "propertyDetails" \notin chg THEN w
  ELSE IF cur.propertyDetails = Null THEN w
  ELSE IF cur.propertyDetails.location = Null THEN w
  ELSE LET l == cur.propertyDetails.location IN
       IF IsValidCoord(l.lat) /\ IsValidCoord(l.lng)
       THEN Set(w, "mapCenter", [lat |-> l.lat.val, lng |-> l.lng.val])
       ELSE w

\* part_002:213-223
EffCenter(chg, cur, w) ==
  IF "propertyDetails" \notin chg THEN w
  ELSE IF cur.propertyDetails = Null THEN w
  ELSE IF cur.propertyDetails.location = Null THEN w
  ELSE LET l == cur.propertyDetails.location IN
       IF IsValidCoord(l.lat) /\ IsValidCoord(l.lng)
       THEN Set(Set(w, "mapCenter", [lat |-> l.lat.val, lng |-> l.lng.val]),
                "mapZoom", 16)
       ELSE w

\* One committed render of state cur: the effects whose dependencies are in
\* chg run in the order of their declaration, all reading cur.
Render(chg, cur) ==
  LET w0 == [s |-> cur, dirty |-> {}]
      w1 == EffEmirates(chg, cur, w0)
      w2 == EffAreas(chg, cur, w1)
      w3 == EffMarkers(chg, cur, w2)
      w4 == EffBounds(chg, cur, w3)
      w5 == EffGis(chg, cur, w4)
      w6 == EffPropGis(chg, cur, w5)
  IN EffCenter(chg, cur, w6)

\* Renders until no effect changes the state any more.
RECURSIVE Commit(_, _)
Commit(chg, cur) ==
  IF chg = {} THEN cur
  ELSE LET w == Render(chg, cur) IN Commit(w.dirty, w.s)

RECURSIVE SetAll(_, _)
SetAll(w, upds) ==
  IF upds = << >> THEN w
  ELSE SetAll(Set(w, Head(upds)[1], Head(upds)[2]), Tail(upds))

\* A handler that makes the state updates upds (<<name, value>> pairs) on
\* component s, and the renders that follow.  Updates of an unmounted
\* component are dropped.
Act(s, upds) ==
  IF ~s.mounted THEN s
  ELSE LET w == SetAll([s |-> s, dirty |-> {}], upds) IN Commit(w.dirty, w.s)

(***************************************************************************)
(* PropertyMap: the state after the first render and its effects.          *)
(***************************************************************************)
DefaultCenter == [lat |-> 25, lng |-> 55]
DefaultZoom == 10

PropertyDetailsValues == {Property(1, Loc(1, 2)), Property(3, Null),
                          Property(2, [lat |-> Num(3), lng |-> NaN])}

InitPM ==
  /\ mounted = TRUE
  /\ gisInit = "pending"
  /\ initCalls = 1
  /\ mapBounds = Null
  /\ mapCenter = DefaultCenter
  /\ mapZoom = DefaultZoom
  /\ gisLayers = Null
  /\ gisLoading = FALSE
  /\ gisError = NoError
  /\ gisInitialized = FALSE
  /\ propertyGisData = Null
  /\ emiratesBoundaries = Null
  /\ areasBoundaries = Null
  /\ showEmirates = FALSE
  /\ showAreas = FALSE
  /\ currentEmirate = "Dubai"
  /\ enabledGisLayers \in LayersProps
  /\ propertyMarkers = Null
  /\ propertyDetails = Null
  /\ loadPropertyMarkers = "function"
  /\ emiratesReqs = 0
  /\ emiratesIssued = 0
  /\ areasReqs = {}
  /\ areasIssued = 0
  /\ areasArrivals = << >>
  /\ markerTimers = << >>
  /\ markerCleanup = FALSE
  /\ markerScheduled = 0
  /\ markerCleared = 0
  /\ loadCalls = 0
  /\ lastLoadCall = Null
  /\ gisTimers = << >>
  /\ gisScheduled = 0
  /\ layersReqs = << >>
  /\ layersCalls = 0
  /\ layersRejected = 0
  /\ propGisReqs = << >>
  /\ propGisIssued = 0

\* The bounds of the model, as a guard on the state an action leads to.
Within(r) ==
  /\ r.emiratesIssued <= MaxEmiratesReqs
  /\ r.areasIssued <= MaxAreasReqs
  /\ r.markerScheduled <= MaxMarkerTimers
  /\ r.gisScheduled <= MaxGisTimers
  /\ r.propGisIssued <= MaxPropGisReqs

Step(r) == Within(r) /\ SetPM(r) /\ UNCHANGED <<gmVars, mcVars, docVars, renderVars>>

RemoveAt(q, i) == SubSeq(q, 1, i - 1) \o SubSeq(q, i + 1, Len(q))

(***************************************************************************)
(* PropertyMap: the service initialization (part_002:61-73).               *)
(***************************************************************************)
InitializeResolves ==
  /\ gisInit = "pending"
  /\ Step(Act([PM EXCEPT !.gisInit = "resolved"], <<<<"gisInitialized", TRUE>>>>))

InitializeRejects ==
  /\ gisInit = "pending"
  /\ Step(Act([PM EXCEPT !.gisInit = "rejected"], <<<<"gisError", InitFailedMsg>>>>))

(***************************************************************************)
(* PropertyMap: the settings panel and the popup event                     *)
(* (part_002:525-541, 226-244).                                            *)
(***************************************************************************)
ToggleEmirates(b) ==
  /\ mounted
  /\ Step(Act(PM, <<<<"showEmirates", b>>>>))

ToggleAreas(b) ==
  /\ mounted
  /\ Step(Act(PM, <<<<"showAreas", b>>>>))

EmirateChange(e) ==
  /\ mounted
  /\ Step(Act(PM, <<<<"currentEmirate", e>>>>))

\* window.showAreasForEmirate dispatches the event on the document; the
\* listener handleShowAreas is registered on mount and removed by the cleanup
\* of its effect on unmount, after which the event reaches no handler.
handleShowAreasEmirateOnly(s, emirateName) ==
  Act(s, <<<<"currentEmirate", emirateName>>>>)

handleShowAreas(s, emirateName) ==
  Act(s, <<<<"currentEmirate", emirateName>>, <<"showAreas", TRUE>>>>)

ShowAreasEvent(e) ==
  LET r == IF mounted THEN handleShowAreas(PM, e) ELSE PM IN
  /\ Len(dispatched) < MaxDispatched
  /\ dispatched' = Append(dispatched, e)
  /\ Within(r) /\ SetPM(r)
  /\ UNCHANGED <<gmVars, mcVars, renderVars>>

(***************************************************************************)
(* PropertyMap: the boundary responses (part_002:79-87, 96-104).           *)
(***************************************************************************)
EmiratesData == [features |-> TRUE]
AreasData(req) == [features |-> TRUE, emirate |-> req.emirate, req |-> req.id]

EmiratesResponse(ok) ==
  /\ emiratesReqs > 0
  /\ Step(Act([PM EXCEPT !.emiratesReqs = @ - 1],
              IF ok THEN <<<<"emiratesBoundaries", EmiratesData>>>>
              ELSE <<<<"gisError", EmiratesFailedMsg>>>>))

\* A continuation that drops the response of a superseded request.
AreasResolvedIfCurrent(s, req) ==
  IF req.emirate = s.currentEmirate
  THEN Act(s, <<<<"areasBoundaries", AreasData(req)>>>>)
  ELSE s

\* part_002:98-99: the continuation of fetchAreasBoundaries for request req.
AreasResolved(s, req) == Act(s, <<<<"areasBoundaries", AreasData(req)>>>>)

AreasResponse(req, ok) ==
  /\ req \in areasReqs
  /\ LET s == [PM EXCEPT !.areasReqs = @ \ {req},
                         !.areasArrivals =
                            Append(@, [id |-> req.id, emirate |-> req.emirate,
                                       ok |-> ok])]
     IN Step(IF ok THEN AreasResolved(s, req)
             ELSE Act(s, <<<<"gisError", AreasFailedMsg(req.emirate)>>>>))

(***************************************************************************)
(* PropertyMap: props and context handed in by the parent and the provider.*)
(***************************************************************************)
ContextMarkers(ps) ==
  /\ mounted
  /\ Step(Act(PM, <<<<"propertyMarkers", [properties |-> ps]>>>>))

ContextLoadFn ==
  /\ mounted
  /\ Step(Act(PM, <<<<"loadPropertyMarkers", "function">>>>))

ContextDetails(d) ==
  /\ mounted
  /\ Step(Act(PM, <<<<"propertyDetails", d>>>>))

SetLayersProp(p) ==
  /\ mounted
  /\ p.given
  /\ Step(Act(PM, <<<<"enabledGisLayers", p>>>>))

(***************************************************************************)
(* PropertyMap: timers (part_002:119-124, 178-182).                        *)
(***************************************************************************)
MarkerTimerFires ==
  /\ markerTimers # << >>
  /\ LET t == Head(markerTimers) IN
     Step([PM EXCEPT !.markerTimers = Tail(@),
                     !.markerCleanup = IF Len(markerTimers) = 1 THEN FALSE ELSE @,
                     !.loadCalls = @ + 1,
                     !.lastLoadCall = [bounds |-> t.bounds, limit |-> 100]])

GisTimerFires ==
  /\ gisTimers # << >>
  /\ Step([PM EXCEPT !.gisTimers = Tail(@),
                     !.layersReqs = Append(@, Head(gisTimers)),
                     !.layersCalls = @ + 1])

(***************************************************************************)
(* PropertyMap: the getLayers response (part_002:179-181).                 *)
(***************************************************************************)
\* What the service answers to a request for the layer types L.
LayersResponses(L) ==
  {[layers |-> {[type |-> t, features |-> f[t]] : t \in L}] :
     f \in [L -> {0, 1}]}

\* part_002:180-181
LayersResolved(s, resp) ==
  Act(s, <<<<"gisLayers", resp>>, <<"gisLoading", FALSE>>>>)

\* A rejection of getLayers inside the timer callback: the callback is an
\* async function nobody awaits, so its rejection reaches no catch block.
LayersRejected(s) == s

LayersResolves(i, resp) ==
  /\ i \in 1..Len(layersReqs)
  /\ resp \in LayersResponses(layersReqs[i].layers)
  /\ Step(LayersResolved([PM EXCEPT !.layersReqs = RemoveAt(@, i)], resp))

LayersRejects(i) ==
  /\ i \in 1..Len(layersReqs)
  /\ Step(LayersRejected([PM EXCEPT !.layersReqs = RemoveAt(@, i),
                                    !.layersRejected = @ + 1]))

(***************************************************************************)
(* PropertyMap: the property GIS response (part_002:199-207).              *)
(***************************************************************************)
PropGisResponse(i, ok) ==
  /\ i \in 1..Len(propGisReqs)
  /\ Step(Act([PM EXCEPT !.propGisReqs = RemoveAt(@, i)],
              <<<<"propertyGisData",
                  IF ok THEN [gisId |-> propGisReqs[i]] ELSE Null>>>>))

(***************************************************************************)
(* PropertyMap: unmount.  The cleanups of the effects run: the marker      *)
(* timer is cleared, the document listener removed.                        *)
(***************************************************************************)
Unmount ==
  /\ mounted
  /\ Step([MarkerEffectCleanup(PM) EXCEPT !.mounted = FALSE])

NextPM ==
  \/ InitializeResolves
  \/ InitializeRejects
  \/ \E b \in BOOLEAN : ToggleEmirates(b)
  \/ \E b \in BOOLEAN : ToggleAreas(b)
  \/ \E e \in Emirates : EmirateChange(e)
  \/ \E e \in Emirates : ShowAreasEvent(e)
  \/ \E ok \in BOOLEAN : EmiratesResponse(ok)
  \/ \E req \in areasReqs, ok \in BOOLEAN : AreasResponse(req, ok)
  \/ \E ps \in MarkerLists : ContextMarkers(ps)
  \/ ContextLoadFn
  \/ \E d \in PropertyDetailsValues \cup {Null} : ContextDetails(d)
  \/ \E p \in LayersProps : SetLayersProp(p)
  \/ MarkerTimerFires
  \/ GisTimerFires
  \/ \E i \in 1..Len(layersReqs) :
       \E resp \in LayersResponses(layersReqs[i].layers) : LayersResolves(i, resp)
  \/ \E i \in 1..Len(layersReqs) : LayersRejects(i)
  \/ \E i \in 1..Len(propGisReqs), ok \in BOOLEAN : PropGisResponse(i, ok)
  \/ Unmount

(***************************************************************************)
(* PropertyGoogleMap (part_001).                                           *)
(***************************************************************************)
NoId == 0

\* part_001:144, 287, 209-214: the emirates, the layer types and the mock
\* areas, in the order the loops visit them (two of each).
GmEmirates == <<"Dubai", "Abu Dhabi">>
GmLayerOrder == <<"parcels", "zoning">>
GmAreaNames == <<"Downtown", "Marina">>

GmProperty(id, lat, lng) == [id |-> id, lat |-> lat, lng |-> lng]
G1 == GmProperty(1, 1, 2)
G2 == GmProperty(2, 3, 1)
GmMarkerLists == {<< >>, <<G1>>, <<G1, G2>>}
GmIds == {NoId} \cup {G1.id, G2.id}
GmApiKeys == {"key1", "key2"}

GM == [isLoaded |-> gm_isLoaded, service |-> gm_service, init |-> gm_init,
       initCalls |-> gm_initCalls, mapRef |-> gm_mapRef, maps |-> gm_maps,
       boundsReady |-> gm_boundsReady, gisLayersRef |-> gm_gisLayersRef,
       selectedProperty |-> gm_selectedProperty, mapLoaded |-> gm_mapLoaded,
       showEmirates |-> gm_showEmirates, showAreas |-> gm_showAreas,
       currentEmirate |-> gm_currentEmirate, enabledLayers |-> gm_enabledLayers,
       gisInitialized |-> gm_gisInitialized,
       propertyMarkers |-> gm_propertyMarkers,
       selectedPropertyId |-> gm_selectedPropertyId, mapMode |-> gm_mapMode,
       layers |-> gm_layers, runs |-> gm_runs,
       markersRef |-> gm_markersRef, clusterer |-> gm_clusterer,
       replaced |-> gm_replaced, apiKey |-> gm_apiKey]

SetGM(r) ==
  /\ gm_isLoaded' = r.isLoaded /\ gm_service' = r.service /\ gm_init' = r.init
  /\ gm_initCalls' = r.initCalls /\ gm_mapRef' = r.mapRef /\ gm_maps' = r.maps
  /\ gm_boundsReady' = r.boundsReady /\ gm_gisLayersRef' = r.gisLayersRef
  /\ gm_selectedProperty' = r.selectedProperty /\ gm_mapLoaded' = r.mapLoaded
  /\ gm_showEmirates' = r.showEmirates /\ gm_showAreas' = r.showAreas
  /\ gm_currentEmirate' = r.currentEmirate
  /\ gm_enabledLayers' = r.enabledLayers
  /\ gm_gisInitialized' = r.gisInitialized
  /\ gm_propertyMarkers' = r.propertyMarkers
  /\ gm_selectedPropertyId' = r.selectedPropertyId /\ gm_mapMode' = r.mapMode
  /\ gm_layers' = r.layers /\ gm_runs' = r.runs
  /\ gm_markersRef' = r.markersRef /\ gm_clusterer' = r.clusterer
  /\ gm_replaced' = r.replaced /\ gm_apiKey' = r.apiKey

Range(q) == {q[i] : i \in DOMAIN q}
Includes(q, x) == x \in Range(q)
Filter(q, x) == SelectSeq(q, LAMBDA y : y # x)

\* layer.setMap(null) on the layers ids.
Detach(layers, ids) ==
  [i \in DOMAIN layers |->
     IF i \in ids THEN [layers[i] EXCEPT !.map = 0] ELSE layers[i]]

\* new google.maps.Data() ... layer.setMap(mapRef.current), in the loader
\* call r: an area layer is named after the emirate r closes over, the
\* click listener of an emirate layer reads the showAreas r closes over.
WithNewLayer(s, kind, name, r) ==
  [s EXCEPT !.layers =
     Append(@, [kind |-> kind, name |-> name, map |-> s.mapRef,
                emirate |-> IF kind = "areas" THEN r.emirate ELSE "",
                showAreas |-> IF kind = "emirates" THEN r.showAreas
                              ELSE FALSE])]

\* A call of one of the three loaders, with the values of the render it
\* closes over and reads: enabledLayers in loadGisLayers, currentEmirate in
\* loadAreaBoundaries, showAreas in loadEmiratesBoundaries.
Run(fn, cur) ==
  [fn |-> fn, at |-> 1, layers |-> << >>,
   enabled |-> IF fn = "gis" THEN Range(cur.enabledLayers) ELSE {},
   emirate |-> IF fn = "areas" THEN cur.currentEmirate ELSE "",
   showAreas |-> IF fn = "emirates" THEN cur.showAreas ELSE FALSE]

\* part_001:133-148: loadEmiratesBoundaries up to its first await.
StartEmirates(s, cur) ==
  [s EXCEPT !.layers = Detach(@, Range(s.gisLayersRef.emirates)),
            !.gisLayersRef.emirates = << >>,
            !.runs = Append(@, Run("emirates", cur))]

\* part_001:197-219: loadAreaBoundaries up to its first await.
StartAreas(s, cur) ==
  [s EXCEPT !.layers = Detach(@, Range(s.gisLayersRef.areas)),
            !.gisLayersRef.areas = << >>,
            !.runs = Append(@, Run("areas", cur))]

\* part_001:148-185, 219-262: a boundary loader resumes after its await.
ResumeBoundary(s, i, ok) ==
  LET r == s.runs[i]
      names == IF r.fn = "emirates" THEN GmEmirates ELSE GmAreaNames
  IN IF ~ok THEN [s EXCEPT !.runs = RemoveAt(@, i)]
     ELSE LET s1 == WithNewLayer(s, r.fn, names[r.at], r)
              made == Append(r.layers, Len(s1.layers))
          IN IF r.at < Len(names)
             THEN [s1 EXCEPT !.runs[i].at = @ + 1, !.runs[i].layers = made]
             ELSE [s1 EXCEPT !.runs = RemoveAt(@, i),
                             !.gisLayersRef[r.fn] = made]

\* part_001:287-401: the loop of loadGisLayers from layer type idx on, for
\* the call at runs[i], up to its next await or its end.
RECURSIVE GisLoop(_, _, _)
GisLoop(s, i, idx) ==
  IF idx > Len(GmLayerOrder) THEN [s EXCEPT !.runs = RemoveAt(@, i)]
  ELSE LET t == GmLayerOrder[idx]
           old == s.gisLayersRef.data[t]
           s1 == IF old # 0
                 THEN [s EXCEPT !.layers = Detach(@, {old}),
                                !.gisLayersRef.data[t] = 0]
                 ELSE s
       IN IF t \notin s.runs[i].enabled THEN GisLoop(s1, i, idx + 1)
          ELSE [s1 EXCEPT !.runs[i].at = idx]

\* part_001:274-287: loadGisLayers up to its first await.
StartGis(s, cur) ==
  IF ~s.boundsReady THEN s
  ELSE LET s1 == [s EXCEPT !.runs = Append(@, Run("gis", cur))]
       IN GisLoop(s1, Len(s1.runs), 1)

\* A loadGisLayers whose try/catch is around the loop: a failure ends the run.
ResumeGisAbort(s, i, ok) ==
  LET r == s.runs[i]
      t == GmLayerOrder[r.at]
  IN IF ~ok THEN [s EXCEPT !.runs = RemoveAt(@, i)]
     ELSE LET s1 == WithNewLayer(s, "data", t, r)
          IN GisLoop([s1 EXCEPT !.gisLayersRef.data[t] = Len(s1.layers)],
                     i, r.at + 1)

\* part_001:299-400: loadGisLayers resumes after await getGisData.
ResumeGis(s, i, ok) ==
  LET r == s.runs[i]
      t == GmLayerOrder[r.at]
  IN IF ~ok THEN GisLoop(s, i, r.at + 1)
     ELSE LET s1 == WithNewLayer(s, "data", t, r)
          IN GisLoop([s1 EXCEPT !.gisLayersRef.data[t] = Len(s1.layers)],
                     i, r.at + 1)

GEffServiceAnew(chg, cur, w) ==
  IF chg \cap {"isLoaded", "apiKey"} = {} THEN w
  ELSE IF cur.isLoaded
  THEN [w EXCEPT !.s.service = "created", !.s.init = "pending",
                 !.s.initCalls = @ + 1]
  ELSE w

\* part_001:70-82
GEffService(chg, cur, w) ==
  IF chg \cap {"isLoaded", "apiKey"} = {} THEN w
  ELSE IF cur.isLoaded /\ w.s.service = "none"
  THEN [w EXCEPT !.s.service = "created", !.s.init = "pending",
                 !.s.initCalls = @ + 1]
  ELSE w

GmReadyUninitialized(cur, s) ==
  cur.mapLoaded /\ s.mapRef # 0 /\ s.service # "none"

\* part_001:131, 195, 272: the guard the three load effects share.
GmReady(cur, s) ==
  cur.mapLoaded /\ s.mapRef # 0 /\ s.service # "none" /\ cur.gisInitialized

\* part_001:130-189
GEffEmirates(chg, cur, w) ==
  IF chg \cap {"showEmirates", "mapLoaded", "gisInitialized"} = {} THEN w
  ELSE IF ~cur.showEmirates \/ ~GmReady(cur, w.s) THEN w
  ELSE [w EXCEPT !.s = StartEmirates(w.s, cur)]

\* part_001:194-266
GEffAreas(chg, cur, w) ==
  IF chg \cap {"showAreas", "currentEmirate", "mapLoaded", "gisInitialized"} = {}
  THEN w
  ELSE IF ~cur.showAreas \/ ~GmReady(cur, w.s) THEN w
  ELSE [w EXCEPT !.s = StartAreas(w.s, cur)]

\* part_001:271-407
GEffGis(chg, cur, w) ==
  IF chg \cap {"enabledLayers", "mapLoaded", "gisInitialized"} = {} THEN w
  ELSE IF ~GmReady(cur, w.s) THEN w
  ELSE IF Len(cur.enabledLayers) > 0 THEN [w EXCEPT !.s = StartGis(w.s, cur)]
  ELSE w

\* part_001:573-586: the ref callback of the Marker of property p.
MarkerRef(ref, p) ==
  LET same == {i \in DOMAIN ref : ref[i].lat = p.lat /\ ref[i].lng = p.lng}
      marker == [id |-> p.id, lat |-> p.lat, lng |-> p.lng]
  IN IF same # {}
     THEN [ref EXCEPT ![CHOOSE i \in same : \A j \in same : i <= j] = marker]
     ELSE Append(ref, marker)

\* part_001:564-589: a render calls the ref callback of every Marker it
\* draws, in the order of the list.
RECURSIVE MarkerRefs(_, _)
MarkerRefs(ref, ps) ==
  IF ps = << >> THEN ref
  ELSE MarkerRefs(MarkerRef(ref, Head(ps)), Tail(ps))

\* The markers a render of state cur draws.
DrawnProperties(cur) ==
  IF cur.isLoaded /\ cur.mapLoaded /\ cur.propertyMarkers # Null
  THEN cur.propertyMarkers.properties
  ELSE << >>

\* part_001:90-92, 120-124: clustererRef.current.clearMarkers()
ClearMarkers(clusterer) ==
  IF clusterer = Null THEN Null ELSE [clusterer EXCEPT !.markers = << >>]

\* part_001:93: clustererRef.current = new MarkerClusterer(...); the clusterer
\* that was in the ref is no longer reachable, with the markers it still has.
NewClusterer(s) ==
  [s EXCEPT !.clusterer = [map |-> s.mapRef, markers |-> s.markersRef],
            !.replaced = IF s.clusterer # Null /\ s.clusterer.markers # << >>
                         THEN Append(@, s.clusterer) ELSE @]

GEffClustererNoClear(chg, cur, w) ==
  IF chg \cap {"mapLoaded", "propertyMarkers"} = {} THEN w
  ELSE IF cur.mapLoaded /\ w.s.mapRef # 0 /\ Len(w.s.markersRef) > 0
       THEN [w EXCEPT !.s = NewClusterer(@)]
       ELSE w

\* part_001:87-125: the cleanup of the last run (120-124), then the effect
\* (88-118).
GEffClusterer(chg, cur, w) ==
  IF chg \cap {"mapLoaded", "propertyMarkers"} = {} THEN w
  ELSE LET c == [w EXCEPT !.s.clusterer = ClearMarkers(@)] IN
       IF cur.mapLoaded /\ c.s.mapRef # 0 /\ Len(c.s.markersRef) > 0
       THEN [c EXCEPT !.s = NewClusterer([@ EXCEPT !.clusterer = ClearMarkers(@)])]
       ELSE c

GRender(chg, cur) ==
  LET w0 == [s |-> [cur EXCEPT !.markersRef =
                                  MarkerRefs(@, DrawnProperties(cur))],
             dirty |-> {}]
      w1 == GEffClusterer(chg, cur, GEffService(chg, cur, w0))
      w2 == GEffEmirates(chg, cur, w1)
      w3 == GEffAreas(chg, cur, w2)
  IN GEffGis(chg, cur, w3)

RECURSIVE GCommit(_, _)
GCommit(chg, cur) ==
  IF chg = {} THEN cur
  ELSE LET w == GRender(chg, cur) IN GCommit(w.dirty, w.s)

\* part_001:555-562: GoogleMap is rendered once the script has loaded, for as
\* long as the component lives: the component is gone once its map has
\* been unmounted.
GmMounted(s) == ~(s.maps > 0 /\ s.mapRef = 0)

\* A handler of PropertyGoogleMap making the updates upds, and the renders
\* that follow.
GAct(s, upds) ==
  IF ~GmMounted(s) THEN s
  ELSE LET w == SetAll([s |-> s, dirty |-> {}], upds) IN GCommit(w.dirty, w.s)

InitGM ==
  /\ gm_isLoaded = FALSE
  /\ gm_service = "none"
  /\ gm_init = "none"
  /\ gm_initCalls = 0
  /\ gm_mapRef = 0
  /\ gm_maps = 0
  /\ gm_boundsReady = FALSE
  /\ gm_gisLayersRef = [emirates |-> << >>, areas |-> << >>,
                        data |-> [t \in Range(GmLayerOrder) |-> 0]]
  /\ gm_selectedProperty = Null
  /\ gm_mapLoaded = FALSE
  /\ gm_showEmirates = FALSE
  /\ gm_showAreas = FALSE
  /\ gm_currentEmirate = "Dubai"
  /\ gm_enabledLayers = << >>
  /\ gm_gisInitialized = FALSE
  /\ gm_propertyMarkers = Null
  /\ gm_selectedPropertyId = NoId
  /\ gm_mapMode = "properties"
  /\ gm_layers = << >>
  /\ gm_runs = << >>
  /\ gm_markersRef = << >>
  /\ gm_clusterer = Null
  /\ gm_replaced = << >>
  /\ gm_apiKey = "key1"

LayersOfKind(layers, kinds) == {i \in DOMAIN layers : layers[i].kind \in kinds}

GWithin(r) ==
  /\ Len(r.runs) <= MaxGmRuns
  /\ Cardinality(LayersOfKind(r.layers, {"data"})) <= MaxGmDataLayers
  /\ Cardinality(LayersOfKind(r.layers, {"emirates", "areas"}))
       <= MaxGmBoundaryLayers

GStep(r) == GWithin(r) /\ SetGM(r) /\ UNCHANGED <<pmVars, mcVars, docVars, renderVars>>

\* useJsApiLoader reports the script loaded (part_001:36-39).
ScriptLoaded ==
  /\ ~gm_isLoaded
  /\ GStep(GAct(GM, <<<<"isLoaded", TRUE>>>>))

\* part_001:73-80
GmInitResolves(success) ==
  /\ gm_init = "pending"
  /\ GStep(GAct([GM EXCEPT !.init = IF success THEN "resolvedTrue"
                                   ELSE "resolvedFalse"],
                <<<<"gisInitialized", success>>>>))

GmInitRejects ==
  /\ gm_init = "pending"
  /\ GStep(GAct([GM EXCEPT !.init = "rejected"], <<<<"gisInitialized", FALSE>>>>))

\* part_001:412-415
OnMapLoad ==
  /\ gm_isLoaded /\ gm_maps = 0
  /\ GStep(GAct([GM EXCEPT !.mapRef = 1, !.maps = 1, !.boundsReady = FALSE],
                <<<<"mapLoaded", TRUE>>>>))

\* The map has laid itself out: getBounds() returns bounds from now on.
MapIdle ==
  /\ gm_mapRef # 0 /\ ~gm_boundsReady
  /\ GStep([GM EXCEPT !.boundsReady = TRUE])

\* part_001:420-423: GoogleMap unmounts with the component, whose state
\* updates are dropped from then on.
OnMapUnmount ==
  /\ gm_mapRef # 0
  /\ GStep(GAct([GM EXCEPT !.mapRef = 0, !.boundsReady = FALSE,
                           !.clusterer = ClearMarkers(@)],
                <<<<"mapLoaded", FALSE>>>>))

\* part_001:465-471
ToggledLayersAppend(prev, layerId) == Append(prev, layerId)

ToggledLayers(prev, layerId) ==
  IF Includes(prev, layerId) THEN Filter(prev, layerId)
  ELSE Append(prev, layerId)

handleToggleLayer(layerId) ==
  /\ gm_isLoaded
  /\ GStep(GAct(GM, <<<<"enabledLayers", ToggledLayers(gm_enabledLayers, layerId)>>>>))

\* part_001:479-490, 499-510: the map mode for show and the other flag.
ModeFor(show, other, mine, theirs) ==
  IF show THEN (IF other THEN "hybrid" ELSE mine)
  ELSE IF other THEN theirs
  ELSE "properties"

\* part_001:476-491
handleToggleEmirates(show) ==
  /\ gm_isLoaded
  /\ GStep(GAct(GM, <<<<"showEmirates", show>>,
                      <<"mapMode", ModeFor(show, gm_showAreas, "emirates", "areas")>>>>))

\* part_001:496-511
handleToggleAreas(show) ==
  /\ gm_isLoaded
  /\ GStep(GAct(GM, <<<<"showAreas", show>>,
                      <<"mapMode", ModeFor(show, gm_showEmirates, "areas", "emirates")>>>>))

\* part_001:516-519
handleEmirateChange(e) ==
  /\ gm_isLoaded
  /\ GStep(GAct(GM, <<<<"currentEmirate", e>>>>))

\* part_001:165-179: a click on an emirate layer shown on the map.
EmirateLayerClick(i) ==
  /\ i \in DOMAIN gm_layers
  /\ gm_layers[i].kind = "emirates"
  /\ gm_mapRef # 0 /\ gm_layers[i].map = gm_mapRef
  /\ GStep(GAct(GM, <<<<"currentEmirate", gm_layers[i].name>>>>
                      \o (IF ~gm_layers[i].showAreas
                          THEN <<<<"showAreas", TRUE>>>> ELSE << >>)))

\* A getRegionBoundary or getGisData call settles and its loader goes on.
RunResumes(i, ok) ==
  /\ i \in DOMAIN gm_runs
  /\ GStep(IF gm_runs[i].fn = "gis" THEN ResumeGis(GM, i, ok)
           ELSE ResumeBoundary(GM, i, ok))

\* part_001:569-572
MarkerClick(p) ==
  /\ gm_mapLoaded /\ gm_propertyMarkers # Null
  /\ Includes(gm_propertyMarkers.properties, p)
  /\ GStep(GAct(GM, <<<<"selectedProperty", p>>, <<"selectedPropertyId", p.id>>>>))

\* part_001:595-598
InfoWindowClose ==
  /\ gm_isLoaded /\ gm_selectedProperty # Null
  /\ GStep(GAct(GM, <<<<"selectedProperty", Null>>,
                      <<"selectedPropertyId", NoId>>>>))

\* The context: the provider replaces propertyMarkers; another consumer
\* sets selectedPropertyId.
GmContextMarkers(ps) ==
  /\ ps \in GmMarkerLists
  /\ GStep(GAct(GM, <<<<"propertyMarkers", [properties |-> ps]>>>>))

GmContextSelect(id) ==
  /\ id \in GmIds
  /\ GStep(GAct(GM, <<<<"selectedPropertyId", id>>>>))

\* part_001:34: the parent renders PropertyGoogleMap with another apiKey.
ApiKeyChange(k) ==
  /\ k \in GmApiKeys
  /\ GStep(GAct(GM, <<<<"apiKey", k>>>>))

NextGM ==
  \/ ScriptLoaded
  \/ \E b \in BOOLEAN : GmInitResolves(b)
  \/ GmInitRejects
  \/ OnMapLoad
  \/ MapIdle
  \/ OnMapUnmount
  \/ \E t \in Range(GmLayerOrder) : handleToggleLayer(t)
  \/ \E b \in BOOLEAN : handleToggleEmirates(b)
  \/ \E b \in BOOLEAN : handleToggleAreas(b)
  \/ \E e \in Range(GmEmirates) : handleEmirateChange(e)
  \/ \E i \in DOMAIN gm_layers : EmirateLayerClick(i)
  \/ \E i \in DOMAIN gm_runs, ok \in BOOLEAN : RunResumes(i, ok)
  \/ \E p \in {G1, G2} : MarkerClick(p)
  \/ InfoWindowClose
  \/ \E ps \in GmMarkerLists : GmContextMarkers(ps)
  \/ \E id \in GmIds : GmContextSelect(id)
  \/ \E k \in GmApiKeys : ApiKeyChange(k)

\* part_001:456, 587: the styling of a marker.
SelectedScale == 10
NormalScale == 8
SelectedZIndex == 1000
NoZIndex == 0

\* The mutant of IsSelectedMarker: every marker drawn while a selection
\* exists is the selected one.
IsSelectedMarkerAny(selId, p) == selId # NoId

\* part_001:456, 587: selectedPropertyId === property.id
IsSelectedMarker(selId, p) == selId = p.id

\* part_001:564-589: the markers the render draws.
RenderedMarkers(s) ==
  IF GmMounted(s) /\ s.isLoaded /\ s.mapLoaded /\ s.propertyMarkers # Null
  THEN [i \in DOMAIN s.propertyMarkers.properties |->
          LET p == s.propertyMarkers.properties[i]
              sel == IsSelectedMarker(s.selectedPropertyId, p)
          IN [id |-> p.id,
              scale |-> IF sel THEN SelectedScale ELSE NormalScale,
              zIndex |-> IF sel THEN SelectedZIndex ELSE NoZIndex]]
  ELSE << >>

\* part_001:592-599: the info windows the render draws.
RenderedInfoWindows(s) ==
  IF GmMounted(s) /\ s.isLoaded /\ s.selectedProperty # Null
  THEN <<s.selectedProperty>>
  ELSE << >>

(***************************************************************************)
(* MapController (part_000:238-275).                                       *)
(***************************************************************************)
JsString(v) == [kind |-> "string", val |-> v]
JsArray(items) == [kind |-> "array", items |-> items]

\* Array.isArray(v)
IsArray(v) == v # Null /\ v.kind = "array"

\* typeof v === 'number' && !isNaN(v)
IsNumber(v) == v # Null /\ v.kind = "number"

\* The value of v in a condition.
Truthy(v) ==
  IF v = Null \/ v = Undefined \/ v = NaN THEN FALSE
  ELSE IF v.kind = "number" THEN v.val # 0
  ELSE IF v.kind = "string" THEN v.val # ""
  ELSE TRUE

\* A setView effect that does not look at the elements of center.
SetViewGuardLoose(center, zoom) ==
  /\ Truthy(center) /\ Truthy(zoom)
  /\ IsArray(center) /\ Len(center.items) = 2

\* part_000:243-246
SetViewGuard(center, zoom) ==
  /\ Truthy(center) /\ Truthy(zoom)
  /\ IsArray(center) /\ Len(center.items) = 2
  /\ IsNumber(center.items[1]) /\ IsNumber(center.items[2])

\* part_000:256-263: bounds.every(coord => ...)
IsValidBounds(bounds) ==
  \A i \in DOMAIN bounds.items :
     LET coord == bounds.items[i] IN
     /\ IsArray(coord) /\ Len(coord.items) = 2
     /\ IsNumber(coord.items[1]) /\ IsNumber(coord.items[2])

\* part_000:254-265
FitBoundsGuard(bounds) ==
  /\ Truthy(bounds) /\ IsArray(bounds) /\ Len(bounds.items) = 2
  /\ IsValidBounds(bounds)

\* part_000:242-249
EffSetView(center, zoom, calls) ==
  IF SetViewGuard(center, zoom)
  THEN calls \cup {[fn |-> "setView", args |-> <<center, zoom>>]}
  ELSE calls

\* part_000:252-272
EffFitBounds(bounds, calls) ==
  IF FitBoundsGuard(bounds)
  THEN calls \cup {[fn |-> "fitBounds", args |-> <<bounds>>]}
  ELSE calls

\* The props MapController is given.
McPair(a, b) == JsArray(<<Num(a), Num(b)>>)
McCenters ==
  {Null, JsString("ab"), McPair(25, 55), McPair(1, 2),
   JsArray(<<Num(1), Num(2), Num(3)>>),
   JsArray(<<NaN, Num(2)>>), JsArray(<<Num(1), Undefined>>),
   JsArray(<<JsString("1"), Num(2)>>)}
McZooms == {Undefined, Num(0), NaN, Num(10), JsString("10")}
McBounds ==
  {Null, JsArray(<<McPair(1, 1), McPair(3, 2)>>),
   JsArray(<<McPair(1, 1)>>),
   JsArray(<<McPair(1, 1), McPair(3, 2), McPair(4, 4)>>),
   JsArray(<<McPair(1, 1), JsArray(<<Num(3), NaN>>)>>),
   JsArray(<<McPair(1, 1), Num(3)>>),
   JsArray(<<JsArray(<<Num(1), Num(1), Num(1)>>), McPair(3, 2)>>)}

\* A prop differs from the last render's: an array is a new one on every
\* render of the parent, any other value is compared.
McChanged(old, new) == IsArray(new) \/ old # new

\* MapController mounts: both effects run.
InitMapController(bounds, center, zoom) ==
  /\ mc_bounds = bounds /\ mc_center = center /\ mc_zoom = zoom
  /\ mc_calls = EffFitBounds(bounds, EffSetView(center, zoom, {}))

\* MapController as PropertyMap first renders it (part_002:563-567).
InitMC == InitMapController(Null, McPair(25, 55), Num(10))

\* The parent renders MapController with new props: the effects whose
\* dependencies changed run.
MapControllerRender(bounds, center, zoom) ==
  /\ mc_bounds' = bounds /\ mc_center' = center /\ mc_zoom' = zoom
  /\ mc_calls' =
       LET c1 == IF McChanged(mc_center, center) \/ McChanged(mc_zoom, zoom)
                 THEN EffSetView(center, zoom, mc_calls) ELSE mc_calls
       IN IF McChanged(mc_bounds, bounds) THEN EffFitBounds(bounds, c1)
          ELSE c1
  /\ UNCHANGED <<pmVars, gmVars, docVars, renderVars>>

NextMC ==
  \E b \in McBounds, c \in McCenters, z \in McZooms :
     MapControllerRender(b, c, z)

(***************************************************************************)
(* PropertyGoogleMap: the icon of a property marker (part_001:428-460).    *)
(* A string is the sequence of its characters.                             *)
(***************************************************************************)
UpperCase == <<"A", "B", "C", "D", "E", "F", "G", "H", "I", "J", "K", "L", "M",
               "N", "O", "P", "Q", "R", "S", "T", "U", "V", "W", "X", "Y", "Z">>
LowerCase == <<"a", "b", "c", "d", "e", "f", "g", "h", "i", "j", "k", "l", "m",
               "n", "o", "p", "q", "r", "s", "t", "u", "v", "w", "x", "y", "z">>

Chars(cs) == [kind |-> "string", chars |-> cs]

\* String.prototype.toLowerCase on the characters.
ToLowerCaseChar(c) ==
  IF \E i \in DOMAIN UpperCase : UpperCase[i] = c
  THEN LowerCase[CHOOSE i \in DOMAIN UpperCase : UpperCase[i] = c]
  ELSE c

toLowerCase(str) == Chars([i \in DOMAIN str.chars |-> ToLowerCaseChar(str.chars[i])])

\* value?.toLowerCase(): undefined for null and undefined.
OptLowerCase(v) == IF v \in {Null, Undefined} THEN Undefined ELSE toLowerCase(v)

Commercial == Chars(<<"c", "o", "m", "m", "e", "r", "c", "i", "a", "l">>)
Industrial == Chars(<<"i", "n", "d", "u", "s", "t", "r", "i", "a", "l">>)
Land == Chars(<<"l", "a", "n", "d">>)
Sold == Chars(<<"s", "o", "l", "d">>)
Rented == Chars(<<"r", "e", "n", "t", "e", "d">>)

Blue == "#3b82f6"
Emerald == "#10b981"
Orange == "#f97316"
Lime == "#84cc16"
Gray == "#6b7280"

\* part_001:432-444: the switch on the type.
TypeColor(type) ==
  LET t == OptLowerCase(type) IN
  IF t = Commercial THEN Emerald
  ELSE IF t = Industrial THEN Orange
  ELSE IF t = Land THEN Lime
  ELSE Blue

\* A getPropertyMarkerIcon that tests the status before the type.
getPropertyMarkerIconTypeLast(property, selectedPropertyId) ==
  [fillColor |-> IF TypeColor(property.type) # Blue
                 THEN TypeColor(property.type)
                 ELSE IF OptLowerCase(property.status) \in {Sold, Rented}
                      THEN Gray ELSE Blue,
   scale |-> IF IsSelectedMarker(selectedPropertyId, property)
             THEN SelectedScale ELSE NormalScale]

\* part_001:428-460
getPropertyMarkerIcon(property, selectedPropertyId) ==
  [fillColor |-> IF OptLowerCase(property.status) \in {Sold, Rented}
                 THEN Gray ELSE TypeColor(property.type),
   scale |-> IF IsSelectedMarker(selectedPropertyId, property)
             THEN SelectedScale ELSE NormalScale]

\* The types and statuses of the properties drawn.
IconTypes ==
  {Undefined, Null, Commercial, Industrial, Land,
   Chars(<<"C", "o", "m", "m", "e", "r", "c", "i", "a", "l">>),
   Chars(<<"I", "N", "D", "U", "S", "T", "R", "I", "A", "L">>),
   Chars(<<"L", "a", "n", "d">>),
   Chars(<<"r", "e", "s", "i", "d", "e", "n", "t", "i", "a", "l">>),
   Chars(<<"l", "a", "n", "d", "s">>),
   Chars(<< >>)}
IconStatuses ==
  {Undefined, Null, Sold, Rented,
   Chars(<<"S", "o", "l", "d">>),
   Chars(<<"R", "E", "N", "T", "E", "D">>),
   Chars(<<"f", "o", "r", " ", "s", "a", "l", "e">>),
   Chars(<<"u", "n", "s", "o", "l", "d">>)}
IconProperties ==
  {[id |-> id, type |-> t, status |-> st] :
     id \in {G1.id, G2.id}, t \in IconTypes, st \in IconStatuses}

\* A render of the Marker of property p with selectedPropertyId id
\* (part_001:565-568).
MarkerRender(p, id) ==
  /\ icon_property' = p
  /\ icon_selectedPropertyId' = id
  /\ icon_icon' = getPropertyMarkerIcon(p, id)
  /\ UNCHANGED <<pmVars, gmVars, mcVars, docVars, listVars>>

\* The list is replaced: the Marker is drawn for another property.
MarkerProperty(p) ==
  /\ p \in IconProperties /\ p # icon_property
  /\ MarkerRender(p, icon_selectedPropertyId)

\* selectedPropertyId changes: the callback is made anew and the Marker drawn
\* again.
MarkerSelection(id) ==
  /\ id \in GmIds /\ id # icon_selectedPropertyId
  /\ MarkerRender(icon_property, id)

InitMarkerIcon(p) ==
  /\ icon_property = p
  /\ icon_selectedPropertyId = NoId
  /\ icon_icon = getPropertyMarkerIcon(p, NoId)

InitIcon == InitMarkerIcon([id |-> G1.id, type |-> Undefined, status |-> Undefined])

NextMarkerIcon ==
  \/ \E p \in IconProperties : MarkerProperty(p)
  \/ \E id \in GmIds : MarkerSelection(id)

(***************************************************************************)
(* PropertyMap: the property list of a render (part_002:428-482).          *)
(***************************************************************************)
\* object?.properties
PropertiesOf(object) ==
  IF object \in {Null, Undefined} THEN Undefined ELSE object.properties

\* A displayProperties that prefers the search results.
DisplayPropertiesSearchFirst(markers, results) ==
  IF Truthy(PropertiesOf(results)) /\ IsArray(PropertiesOf(results))
  THEN PropertiesOf(results).items
  ELSE IF Truthy(PropertiesOf(markers)) /\ IsArray(PropertiesOf(markers))
  THEN PropertiesOf(markers).items
  ELSE << >>

\* part_002:459-463
DisplayProperties(markers, results) ==
  IF Truthy(PropertiesOf(markers)) /\ IsArray(PropertiesOf(markers))
  THEN PropertiesOf(markers).items
  ELSE IF Truthy(PropertiesOf(results)) /\ IsArray(PropertiesOf(results))
  THEN PropertiesOf(results).items
  ELSE << >>

\* part_002:428-482: the render for the context values.
ListRenderOf(markers, results, isLoading, error) ==
  IF isLoading /\ ~Truthy(results)
  THEN [view |-> "loading", displayProperties |-> Null, noResults |-> FALSE,
        overlay |-> "none"]
  ELSE IF error /\ ~Truthy(results)
  THEN [view |-> "error", displayProperties |-> Null, noResults |-> FALSE,
        overlay |-> "none"]
  ELSE LET displayProperties == DisplayProperties(markers, results)
           noResults == Len(displayProperties) = 0 /\ ~isLoading
       IN [view |-> "map", displayProperties |-> displayProperties,
           noResults |-> noResults,
           overlay |-> IF ~Truthy(results) THEN "none"
                       ELSE IF isLoading THEN "loading"
                       ELSE IF noResults THEN "noResults"
                       ELSE "showing"]

\* The values of properties in a context object, and the context objects.
ListProperties ==
  {Undefined, Null, Num(0), JsString("none"), JsArray(<< >>), JsArray(<<P1>>),
   JsArray(<<P2>>), JsArray(<<P1, P2>>)}
ListObject(v) == [kind |-> "object", properties |-> v]
ListObjects == {Null} \cup {ListObject(v) : v \in ListProperties}

SetList(markers, results, isLoading, error) ==
  LET r == ListRenderOf(markers, results, isLoading, error) IN
  /\ list_propertyMarkers = markers /\ list_searchResults = results
  /\ list_isLoading = isLoading /\ list_error = error
  /\ list_view = r.view /\ list_displayProperties = r.displayProperties
  /\ list_noResults = r.noResults /\ list_overlay = r.overlay

\* The provider changes its values and PropertyMap renders.
ListRender(markers, results, isLoading, error) ==
  LET r == ListRenderOf(markers, results, isLoading, error) IN
  /\ list_propertyMarkers' = markers /\ list_searchResults' = results
  /\ list_isLoading' = isLoading /\ list_error' = error
  /\ list_view' = r.view /\ list_displayProperties' = r.displayProperties
  /\ list_noResults' = r.noResults /\ list_overlay' = r.overlay
  /\ UNCHANGED <<pmVars, gmVars, mcVars, docVars, iconVars>>

ListMarkers(markers) ==
  /\ markers \in ListObjects /\ markers # list_propertyMarkers
  /\ ListRender(markers, list_searchResults, list_isLoading, list_error)

ListSearch(results, isLoading, error) ==
  /\ results \in ListObjects
  /\ <<results, isLoading, error>>
        # <<list_searchResults, list_isLoading, list_error>>
  /\ ListRender(list_propertyMarkers, results, isLoading, error)

InitList == SetList(Null, Null, FALSE, FALSE)

NextList ==
  \/ \E markers \in ListObjects : ListMarkers(markers)
  \/ \E results \in ListObjects, isLoading \in BOOLEAN, error \in BOOLEAN :
        ListSearch(results, isLoading, error)

InitRender == InitIcon /\ InitList

Init == InitPM /\ InitGM /\ InitMC /\ dispatched = << >> /\ InitRender
Next == NextPM \/ NextGM \/ NextMC
Spec == Init /\ [][Next]_vars

(***************************************************************************)
(* The boundary overlays of PropertyMap: the service initialization, the   *)
(* emirates and areas toggles and their requests.  The effects involved    *)
(* (part_002:76-107) read gisInitialized, showEmirates, showAreas and      *)
(* currentEmirate only.                                                    *)
(***************************************************************************)
InitBoundary == Init /\ enabledGisLayers = GivenLayers({})

NextBoundary ==
  \/ InitializeResolves
  \/ InitializeRejects
  \/ \E b \in BOOLEAN : ToggleEmirates(b)
  \/ \E b \in BOOLEAN : ToggleAreas(b)
  \/ \E e \in Emirates : EmirateChange(e)
  \/ \E e \in Emirates : ShowAreasEvent(e)
  \/ \E ok \in BOOLEAN : EmiratesResponse(ok)
  \/ \E req \in areasReqs, ok \in BOOLEAN : AreasResponse(req, ok)
  \/ Unmount

SpecBoundary == InitBoundary /\ [][NextBoundary]_vars

(***************************************************************************)
(* The markers, the map bounds and the GIS layers of PropertyMap           *)
(* (part_002:110-193).                                                     *)
(***************************************************************************)
NextLayers ==
  \/ InitializeResolves
  \/ InitializeRejects
  \/ \E ps \in MarkerLists : ContextMarkers(ps)
  \/ ContextLoadFn
  \/ \E p \in LayersProps : SetLayersProp(p)
  \/ MarkerTimerFires
  \/ GisTimerFires
  \/ \E i \in 1..Len(layersReqs) :
       \E resp \in LayersResponses(layersReqs[i].layers) : LayersResolves(i, resp)
  \/ \E i \in 1..Len(layersReqs) : LayersRejects(i)
  \/ Unmount

SpecLayers == Init /\ [][NextLayers]_vars

(***************************************************************************)
(* PropertyMap while the service does not come up: the behaviours in which *)
(* gisService.initialize() is pending and then rejects.  The timers and    *)
(* responses of the GIS requests are left out: C5_NoRetry shows that no    *)
(* such request or timer exists in these behaviours.                       *)
(***************************************************************************)
NextInitFailure ==
  \/ InitializeRejects
  \/ \E b \in BOOLEAN : ToggleEmirates(b)
  \/ \E b \in BOOLEAN : ToggleAreas(b)
  \/ \E e \in Emirates : EmirateChange(e)
  \/ \E e \in Emirates : ShowAreasEvent(e)
  \/ \E ps \in MarkerLists : ContextMarkers(ps)
  \/ ContextLoadFn
  \/ \E d \in PropertyDetailsValues \cup {Null} : ContextDetails(d)
  \/ \E p \in LayersProps : SetLayersProp(p)
  \/ MarkerTimerFires
  \/ Unmount

SpecInitFailure == Init /\ [][NextInitFailure]_vars

\* PropertyMap's bounds, over property lists with every kind of location.
NextBounds ==
  \/ \E ps \in BoundsMarkerLists : ContextMarkers(ps)
  \/ ContextLoadFn
  \/ MarkerTimerFires
  \/ Unmount

SpecBounds == Init /\ [][NextBounds]_vars

\* PropertyMap with a loadPropertyMarkers that stays the same function: the
\* provider replaces propertyMarkers, the timers fire, the fetches settle.
NextFeedback ==
  \/ InitializeResolves
  \/ \E ps \in MarkerLists : ContextMarkers(ps)
  \/ MarkerTimerFires
  \/ GisTimerFires
  \/ \E i \in 1..Len(layersReqs) :
       \E resp \in LayersResponses(layersReqs[i].layers) : LayersResolves(i, resp)
  \/ Unmount

SpecFeedback == Init /\ [][NextFeedback]_vars

\* MapController alone, mounted with any props.
InitMapControllerAny ==
  /\ InitPM /\ ~enabledGisLayers.given
  /\ InitGM
  /\ \E b \in McBounds, c \in McCenters, z \in McZooms :
        InitMapController(b, c, z)
  /\ dispatched = << >>
  /\ InitRender

SpecMapController == InitMapControllerAny /\ [][NextMC]_vars

\* PropertyGoogleMap alone, beside a PropertyMap left with its default props.
InitGoogleMap == Init /\ ~enabledGisLayers.given

\* PropertyGoogleMap coming up: script, service, map.
NextGMStartup ==
  \/ ScriptLoaded
  \/ \E b \in BOOLEAN : GmInitResolves(b)
  \/ GmInitRejects
  \/ OnMapLoad
  \/ OnMapUnmount

\* Selection of properties in PropertyGoogleMap.
NextGMSelect ==
  \/ NextGMStartup
  \/ \E p \in {G1, G2} : MarkerClick(p)
  \/ InfoWindowClose
  \/ \E ps \in GmMarkerLists : GmContextMarkers(ps)
  \/ \E id \in GmIds : GmContextSelect(id)

SpecGMSelect == InitGoogleMap /\ [][NextGMSelect]_vars

\* The GIS data layers of PropertyGoogleMap.
NextGMLayers ==
  \/ NextGMStartup
  \/ MapIdle
  \/ \E t \in Range(GmLayerOrder) : handleToggleLayer(t)
  \/ \E i \in DOMAIN gm_runs, ok \in BOOLEAN : RunResumes(i, ok)

SpecGMLayers == InitGoogleMap /\ [][NextGMLayers]_vars

\* The GIS data layers of PropertyGoogleMap when the user toggles a layer
\* only after the run of the last toggle has ended.
NextGMLayersSerial ==
  \/ NextGMStartup
  \/ MapIdle
  \/ \E t \in Range(GmLayerOrder) : gm_runs = << >> /\ handleToggleLayer(t)
  \/ \E i \in DOMAIN gm_runs, ok \in BOOLEAN : RunResumes(i, ok)

SpecGMLayersSerial == InitGoogleMap /\ [][NextGMLayersSerial]_vars

\* The boundaries of PropertyGoogleMap.
NextGMBoundaries ==
  \/ NextGMStartup
  \/ \E b \in BOOLEAN : handleToggleEmirates(b)
  \/ \E b \in BOOLEAN : handleToggleAreas(b)
  \/ \E e \in Range(GmEmirates) : handleEmirateChange(e)
  \/ \E i \in DOMAIN gm_layers : EmirateLayerClick(i)
  \/ \E i \in DOMAIN gm_runs, ok \in BOOLEAN : RunResumes(i, ok)

SpecGMBoundaries == InitGoogleMap /\ [][NextGMBoundaries]_vars

\* The starts of the boundary and GIS loads of PropertyGoogleMap: the user
\* turns the emirates and the areas on and toggles the parcels layer, at any
\* time before, during and after the start-up of the map and of the service.
NextGMLoads ==
  \/ NextGMStartup
  \/ MapIdle
  \/ handleToggleLayer("parcels")
  \/ handleToggleEmirates(TRUE)
  \/ handleToggleAreas(TRUE)
  \/ \E i \in DOMAIN gm_runs, ok \in BOOLEAN : RunResumes(i, ok)

SpecGMLoads == InitGoogleMap /\ [][NextGMLoads]_vars

\* The service of PropertyGoogleMap, and the GIS data layers that wait for
\* it, while the parent changes the apiKey prop.
NextGMService ==
  \/ NextGMLayers
  \/ \E k \in GmApiKeys : ApiKeyChange(k)

SpecGMService == InitGoogleMap /\ [][NextGMService]_vars

\* The marker icon alone, for a Marker of any property.
InitMarkerIconAny ==
  /\ InitPM /\ ~enabledGisLayers.given
  /\ InitGM /\ InitMC /\ dispatched = << >> /\ InitList
  /\ \E p \in IconProperties : InitMarkerIcon(p)

SpecMarkerIcon == InitMarkerIconAny /\ [][NextMarkerIcon]_vars

\* The property list of PropertyMap alone.
SpecList == InitGoogleMap /\ [][NextList]_vars

(***************************************************************************)
(* What PropertyMap renders (part_002:596-619): the GIS layers drawn.      *)
(***************************************************************************)
RenderedGisLayersAll ==
  IF gisLayers = Null THEN {}
  ELSE {l \in gisLayers.layers : l.features > 0}

RenderedGisLayers ==
  IF gisLayers = Null THEN {}
  ELSE {l \in gisLayers.layers :
          ~(l.features = 0) /\ ~(l.type \notin enabledGisLayers.layers)}

(***************************************************************************)
(* Claims.                                                                 *)
(***************************************************************************)
LastOkArrival ==
  LET oks == {k \in DOMAIN areasArrivals : areasArrivals[k].ok} IN
  IF oks = {} THEN 0 ELSE CHOOSE k \in oks : \A j \in oks : j <= k

\* C1: requests for area boundaries are never cancelled: every request made
\* is in flight or has delivered its response, and while the component is
\* mounted areasBoundaries holds the data of whichever response arrived last,
\* whatever currentEmirate is by then.
C1_NoCancellation ==
  /\ \A i \in 1..areasIssued :
       (\E r \in areasReqs : r.id = i)
         # (\E k \in DOMAIN areasArrivals : areasArrivals[k].id = i)
  /\ mounted =>
       areasBoundaries =
         IF LastOkArrival = 0 THEN Null
         ELSE AreasData(areasArrivals[LastOkArrival])

\* C1, the reachable state: currentEmirate is B, the response for B has
\* arrived, the response of the earlier request for A arrived after it, and
\* areasBoundaries holds A's data.
C1_StaleAreasKept ==
  /\ mounted /\ showAreas /\ areasReqs = {}
  /\ areasBoundaries # Null
  /\ areasBoundaries.emirate # currentEmirate
  /\ \E i, j \in DOMAIN areasArrivals :
       /\ i < j /\ j = Len(areasArrivals)
       /\ areasArrivals[i].ok /\ areasArrivals[j].ok
       /\ areasArrivals[i].emirate = currentEmirate
       /\ areasArrivals[i].id > areasArrivals[j].id
       /\ areasArrivals[j].id = areasBoundaries.req

\* C2: the marker fetch is debounced: at most one 300 ms timer is pending,
\* it carries the bounds of the current mapBounds, every timer created was
\* cleared, has fired or is the pending one, and every loadPropertyMarkers
\* call carries south/west/north/east of mapBounds and limit 100.
C2_MarkerFetchDebounced ==
  /\ Len(markerTimers) <= 1
  /\ markerTimers # << >> =>
       /\ mapBounds # Null
       /\ markerTimers[1].bounds = BoundsArg(mapBounds)
  /\ markerScheduled = markerCleared + loadCalls + Len(markerTimers)
  /\ loadCalls > 0 =>
       /\ mapBounds # Null
       /\ lastLoadCall = [bounds |-> [south |-> mapBounds.sw[1],
                                      west |-> mapBounds.sw[2],
                                      north |-> mapBounds.ne[1],
                                      east |-> mapBounds.ne[2]],
                          limit |-> 100]

\* C2, the case: the effect ran twice before the timer fired; the first
\* timer was cleared and one call was made.
C2_BurstOneCall ==
  /\ mounted /\ markerScheduled = 2 /\ markerCleared = 1
  /\ loadCalls = 1 /\ markerTimers = << >>

\* C3 (as claimed): a pending 500 ms timer is cancelled when mapBounds,
\* enabledGisLayers or gisInitialized change again, so a getLayers call made
\* by a mounted component carries the values current at the call.
C3_NoCallForSuperseded ==
  [][(mounted /\ layersCalls' = layersCalls + 1)
       => /\ Head(gisTimers).layers = enabledGisLayers.layers
          /\ Head(gisTimers).bounds = BoundsArg(mapBounds)
          /\ gisInitialized]_vars

\* C4 (as claimed): a step in which getLayers rejects sets gisError and
\* resets gisLoading.
C4_RejectionCaught ==
  [][(mounted /\ layersRejected' > layersRejected)
       => (gisError' # NoError /\ gisLoading' = FALSE)]_vars

\* C5: once initialize() has failed, gisInitialized is false, a mounted
\* component shows the initialization message, initialize was called once,
\* and no emirates, areas, layers or property GIS request was made and no
\* GIS timer is pending.
C5_NoRetry ==
  gisInit = "rejected" =>
    /\ ~gisInitialized
    /\ mounted => gisError = InitFailedMsg
    /\ initCalls = 1
    /\ emiratesIssued = 0 /\ emiratesReqs = 0
    /\ areasIssued = 0 /\ areasReqs = {}
    /\ gisScheduled = 0 /\ gisTimers = << >>
    /\ layersCalls = 0 /\ layersReqs = << >>
    /\ propGisIssued = 0 /\ propGisReqs = << >>

\* C5, the case: after the failure every panel is switched on, the map has
\* bounds, layers are enabled and a property is selected.
C5_FailedThenUsed ==
  /\ gisInit = "rejected" /\ mounted
  /\ showEmirates /\ showAreas /\ currentEmirate = "Sharjah"
  /\ mapBounds # Null /\ enabledGisLayers.layers # {}
  /\ propertyDetails # Null

\* C6: once mapBounds is set, no step changes it.
C6_BoundsKeptOnceSet ==
  [][mapBounds # Null => mapBounds' = mapBounds]_vars

\* C6, the case: mapBounds is set and propertyMarkers has been replaced by a
\* list with another extent.
C6_MarkersReplacedBoundsKept ==
  /\ mounted /\ mapBounds # Null /\ propertyMarkers # Null
  /\ LET x == ExtentOf(propertyMarkers.properties) IN
       /\ x.valid > 0
       /\ mapBounds # [sw |-> <<x.south, x.west>>, ne |-> <<x.north, x.east>>]

\* C10: every GIS layer PropertyMap draws has its type in enabledGisLayers
\* and has at least one feature.
C10_RenderedLayersEnabled ==
  \A l \in RenderedGisLayers :
    l.type \in enabledGisLayers.layers /\ l.features >= 1

\* C10, the case: gisLayers holds a layer with features whose type is no
\* longer enabled, next to one that is drawn.
C10_StaleLayerHidden ==
  /\ mounted /\ gisLayers # Null
  /\ \E l \in gisLayers.layers :
       l.features > 0 /\ l.type \notin enabledGisLayers.layers
  /\ RenderedGisLayers # {}

StyledMarkers(s) ==
  {i \in DOMAIN RenderedMarkers(s) :
     \/ RenderedMarkers(s)[i].scale = SelectedScale
     \/ RenderedMarkers(s)[i].zIndex = SelectedZIndex}

\* C7: at most one marker is drawn with the selected styling (scale 10,
\* zIndex 1000) and at most one info window is open, in every state; and a
\* step that closes the info window leaves no property selected: no
\* selectedProperty, no selectedPropertyId, no styled marker, no info window.
C7_AtMostOneSelected ==
  /\ [](/\ Cardinality(StyledMarkers(GM)) <= 1
        /\ Len(RenderedInfoWindows(GM)) <= 1)
  /\ [][(gm_selectedProperty # Null /\ gm_selectedProperty' = Null)
          => /\ gm_selectedPropertyId' = NoId
             /\ StyledMarkers(GM)' = {}
             /\ RenderedInfoWindows(GM)' = << >>]_vars

\* C7 witness: two markers are drawn, the second one has been clicked, and
\* it alone is styled, with its info window open.
C7_SecondMarkerSelected ==
  /\ Len(RenderedMarkers(GM)) = 2
  /\ gm_selectedProperty = G2
  /\ StyledMarkers(GM) = {2}
  /\ Len(RenderedInfoWindows(GM)) = 1

\* The data layers attached to the map.
AttachedTypes ==
  {gm_layers[i].name :
     i \in {j \in LayersOfKind(gm_layers, {"data"}) :
              gm_mapRef # 0 /\ gm_layers[j].map = gm_mapRef}}

GisRunInProgress == \E i \in DOMAIN gm_runs : gm_runs[i].fn = "gis"

\* C8: whenever no loadGisLayers run is in progress, every GIS data layer
\* attached to the map has its type in enabledLayers.
C8_AttachedLayersEnabled ==
  ~GisRunInProgress => AttachedTypes \subseteq Range(gm_enabledLayers)

BoundaryRunInProgress ==
  \E i \in DOMAIN gm_runs : gm_runs[i].fn \in {"emirates", "areas"}

AttachedBoundaries(kind) ==
  {i \in LayersOfKind(gm_layers, {kind}) :
     gm_mapRef # 0 /\ gm_layers[i].map = gm_mapRef}

\* C9: whenever a boundary kind's show flag is false and no boundary load is
\* in progress, no boundary layer of that kind is attached to the map.
C9_HiddenWhenToggledOff ==
  ~BoundaryRunInProgress =>
     /\ (~gm_showEmirates => AttachedBoundaries("emirates") = {})
     /\ (~gm_showAreas => AttachedBoundaries("areas") = {})

\* The locations of ps whose lat and lng are both non-NaN numbers.
ValidLocations(ps) ==
  {ps[i].location : i \in {j \in DOMAIN ps :
       /\ ps[j].location # Null
       /\ ps[j].location.lat.kind = "number"
       /\ ps[j].location.lng.kind = "number"}}

Least(S) == CHOOSE x \in S : \A y \in S : x <= y
Greatest(S) == CHOOSE x \in S : \A y \in S : x >= y
Lats(L) == {l.lat.val : l \in L}
Lngs(L) == {l.lng.val : l \in L}

\* The list the bounds effect reads in the step that sets mapBounds.
MarkersAfter == IF propertyMarkers' = Null THEN << >>
                ELSE propertyMarkers'.properties

\* C11 as stated: a step that sets mapBounds sets it to
\* [[minLat, minLng], [maxLat, maxLng]] over the properties whose lat and lng
\* are both non-NaN numbers, and a step that leaves no such property leaves
\* mapBounds null.
C11_BoundsAreMinMax ==
  [][(mounted /\ mapBounds = Null) =>
       LET L == ValidLocations(MarkersAfter) IN
       IF L = {} THEN mapBounds' = Null
       ELSE mapBounds' = [sw |-> <<Least(Lats(L)), Least(Lngs(L))>>,
                          ne |-> <<Greatest(Lats(L)), Greatest(Lngs(L))>>]]_vars

\* C11 amended: the value is taken over exactly those properties, with the
\* minima capped at 90 and 180 and the maxima floored at -90 and -180: it is
\* [[min(90, minLat), min(180, minLng)], [max(-90, maxLat), max(-180, maxLng)]],
\* which is the bounding box when every latitude lies in [-90, 90] and every
\* longitude in [-180, 180]; with no such property mapBounds stays null.
C11_BoundsAreCappedMinMax ==
  [][(mounted /\ mapBounds = Null) =>
       LET L == ValidLocations(MarkersAfter) IN
       IF L = {} THEN mapBounds' = Null
       ELSE mapBounds' =
              [sw |-> <<Least(Lats(L) \cup {90}), Least(Lngs(L) \cup {180})>>,
               ne |-> <<Greatest(Lats(L) \cup {-90}),
                        Greatest(Lngs(L) \cup {-180})>>]]_vars

\* C11 witness: the bounds were set from a list holding a property with an
\* invalid location and one with a valid location, over the valid one alone.
C11_InvalidIgnored ==
  /\ propertyMarkers # Null
  /\ propertyMarkers.properties = <<PBad, P2>>
  /\ mapBounds = [sw |-> <<3, 1>>, ne |-> <<3, 1>>]

SetViewCalls == {c \in mc_calls : c.fn = "setView"}
FitBoundsCalls == {c \in mc_calls : c.fn = "fitBounds"}

\* center is an array of exactly two non-NaN numbers.
IsLatLng(v) == v \in {McPair(25, 55), McPair(1, 2)}

\* zoom is truthy.
IsTruthyZoom(z) == z \in {Num(10), JsString("10")}

\* bounds is an array of exactly two [number, number] pairs with no NaN.
IsPairOfPairs(v) == v = JsArray(<<McPair(1, 1), McPair(3, 2)>>)

\* C12: every map.setView call made was made with a center that is an array
\* of exactly two non-NaN numbers and a truthy zoom, every map.fitBounds call
\* with an array of exactly two pairs of non-NaN numbers; and a render whose
\* center and zoom, or bounds, are anything else adds no such call.
C12_OnlyValidatedCalls ==
  /\ [](/\ \A c \in SetViewCalls :
              IsLatLng(c.args[1]) /\ IsTruthyZoom(c.args[2])
        /\ \A c \in FitBoundsCalls : IsPairOfPairs(c.args[1]))
  /\ [][/\ ~(IsLatLng(mc_center') /\ IsTruthyZoom(mc_zoom'))
             => SetViewCalls' = SetViewCalls
        /\ ~IsPairOfPairs(mc_bounds') => FitBoundsCalls' = FitBoundsCalls]_vars

\* C12 witness: both calls have been made, and the props now held are a
\* center with a NaN, a zoom of 0 and bounds with a NaN.
C12_CalledThenInvalidProps ==
  /\ SetViewCalls # {} /\ FitBoundsCalls # {}
  /\ mc_center = JsArray(<<NaN, Num(2)>>)
  /\ mc_zoom = Num(0)
  /\ mc_bounds = JsArray(<<McPair(1, 1), JsArray(<<Num(3), NaN>>)>>)

Ids(q) == [i \in DOMAIN q |-> q[i].id]
MarkersDrawn == GmMounted(GM) /\ gm_isLoaded /\ gm_mapLoaded /\ gm_propertyMarkers # Null

\* C13: while the markers of the current list are drawn, markersRef holds
\* exactly one marker per property of the current list and none of a property
\* of a previous list, and so does the MarkerClusterer built from it.
C13_MarkersOfCurrentList ==
  MarkersDrawn =>
    /\ Len(gm_markersRef) = Len(gm_propertyMarkers.properties)
    /\ Range(Ids(gm_markersRef)) = Range(Ids(gm_propertyMarkers.properties))
    /\ (gm_clusterer # Null /\ gm_clusterer.markers # << >>)
         => gm_clusterer.markers = gm_markersRef

\* C14: the GIS effect does not run again through its own state updates.
\* One step (one change of mapBounds, enabledGisLayers or gisInitialized, with
\* the renders it causes) schedules at most one GIS fetch, and a step in which
\* a getLayers call settles while mapBounds, the enabledGisLayers prop and
\* gisInitialized stay as they are schedules none.
C14_NoSelfRetrigger ==
  [][/\ gisScheduled' <= gisScheduled + 1
     /\ (/\ mounted
         /\ Len(layersReqs') < Len(layersReqs)
         /\ mapBounds' = mapBounds
         /\ enabledGisLayers' = enabledGisLayers
         /\ gisInitialized' = gisInitialized)
          => gisScheduled' = gisScheduled]_vars

AttachedDataLayers ==
  {i \in LayersOfKind(gm_layers, {"data"}) :
     gm_mapRef # 0 /\ gm_layers[i].map = gm_mapRef}

\* C15: under any interleaving of loadGisLayers runs, every data layer
\* attached to the map is the layer gisLayersRef records for its type, so at
\* most one layer per type is attached.
C15_AttachedLayersTracked ==
  \A i \in AttachedDataLayers : gm_gisLayersRef.data[gm_layers[i].name] = i

GisRequestOutstanding == gisTimers # << >> \/ layersReqs # << >>

\* C16: gisLoading is true exactly while a GIS layer request is outstanding
\* (its timer pending or its getLayers call in flight): the completion of one
\* request does not clear the flag while another is outstanding, and the flag
\* is cleared once none is.
C16_LoadingIffOutstanding ==
  mounted => (gisLoading <=> GisRequestOutstanding)

\* C17: mapMode reflects the boundary flags in every state: 'hybrid' iff
\* showEmirates and showAreas, 'emirates' iff showEmirates alone, 'areas' iff
\* showAreas alone, 'properties' iff neither.
C17_ModeReflectsFlags ==
  /\ (gm_mapMode = "hybrid") <=> (gm_showEmirates /\ gm_showAreas)
  /\ (gm_mapMode = "emirates") <=> (gm_showEmirates /\ ~gm_showAreas)
  /\ (gm_mapMode = "areas") <=> (~gm_showEmirates /\ gm_showAreas)
  /\ (gm_mapMode = "properties") <=> (~gm_showEmirates /\ ~gm_showAreas)

\* C18: with a stable loadPropertyMarkers, the loop from markers to bounds to
\* fetch to markers ends after one round: at most one marker timer is ever
\* scheduled and at most one loadPropertyMarkers call made, the call is made
\* with the bounds mapBounds was set to, and once the call has been made no
\* step (a replacement of propertyMarkers included) changes mapBounds or
\* schedules another timer.
C18_FeedbackLoopEnds ==
  /\ [](/\ markerScheduled <= 1 /\ loadCalls <= 1
        /\ loadCalls = 1 =>
             /\ mapBounds # Null
             /\ lastLoadCall.bounds = BoundsArg(mapBounds))
  /\ [][loadCalls = 1 =>
          /\ mapBounds' = mapBounds
          /\ markerScheduled' = markerScheduled
          /\ loadCalls' = loadCalls]_vars

\* C18 witness: the one call has been made for the bounds of the first list,
\* propertyMarkers has since been replaced by a list with another extent, and
\* no timer is pending.
C18_ReplacedAfterFetch ==
  /\ mounted /\ loadCalls = 1 /\ markerTimers = << >>
  /\ propertyMarkers # Null /\ propertyMarkers.properties = <<P1, P2>>
  /\ mapBounds = [sw |-> <<1, 2>>, ne |-> <<1, 2>>]

EmiratesRunInProgress == \E i \in DOMAIN gm_runs : gm_runs[i].fn = "emirates"

\* C19: once no loadEmiratesBoundaries run is in progress, every emirate
\* layer attached to the map is recorded in gisLayersRef.current.emirates,
\* also when getRegionBoundary failed after earlier emirates had succeeded.
C19_AttachedEmiratesTracked ==
  ~EmiratesRunInProgress =>
     AttachedBoundaries("emirates") \subseteq Range(gm_gisLayersRef.emirates)

\* The enabled layer types a run r still has to fetch after the one it is at.
LaterEnabled(r) ==
  {k \in DOMAIN GmLayerOrder : k > r.at /\ GmLayerOrder[k] \in r.enabled}

\* The run r once its await has settled: at the next enabled type, or over.
RunAfter(r) ==
  IF LaterEnabled(r) = {} THEN << >>
  ELSE <<[r EXCEPT !.at = CHOOSE k \in LaterEnabled(r) :
                            \A j \in LaterEnabled(r) : k <= j]>>

ValidLocationOf(d) == IF d = Null THEN {} ELSE ValidLocations(<<d>>)

\* C21: a step in which propertyDetails changes to a property whose location
\* has numeric non-NaN lat and lng sets mapCenter to [lat, lng] and mapZoom to
\* 16 and leaves mapBounds as it is; one in which it changes to anything else
\* leaves mapCenter, mapZoom and mapBounds as they are.
C21_DetailsMoveCenterOnly ==
  [][(mounted /\ propertyDetails' # propertyDetails) =>
       LET L == ValidLocationOf(propertyDetails') IN
       /\ mapBounds' = mapBounds
       /\ IF L = {} THEN mapCenter' = mapCenter /\ mapZoom' = mapZoom
          ELSE /\ \E l \in L : mapCenter' = [lat |-> l.lat.val, lng |-> l.lng.val]
               /\ mapZoom' = 16]_vars

\* C21 witness: with mapBounds set, the map was centred on property 1 at
\* zoom 16, and propertyDetails has since changed to a property with no
\* location.
C21_CentredThenInvalidDetails ==
  /\ mounted /\ mapBounds # Null
  /\ mapCenter = [lat |-> 1, lng |-> 2] /\ mapZoom = 16
  /\ propertyDetails = Property(3, Null)

\* The getAreasBoundaries requests started by a step, as their emirates.
AreasRequestsStarted == {r.emirate : r \in areasReqs' \ areasReqs}

\* The detail of the event dispatched by a step.
EventDetail == dispatched'[Len(dispatched')]

\* C22 as stated: every showAreasForEmirate event received while mounted
\* leaves currentEmirate at its detail and showAreas true and, when
\* gisInitialized is true, starts a getAreasBoundaries request for that
\* emirate; an event dispatched after unmount changes no state.
C22_EventStartsRequest ==
  [][(dispatched' # dispatched) =>
       IF mounted
       THEN /\ currentEmirate' = EventDetail /\ showAreas'
            /\ gisInitialized => AreasRequestsStarted = {currentEmirate'}
       ELSE UNCHANGED pmVars]_vars

\* C22 amended: the request is started by the event exactly when the event
\* changes currentEmirate or showAreas; an event that changes neither causes
\* no render and starts no request.
C22_EventStartsRequestOnChange ==
  [][(dispatched' # dispatched) =>
       IF mounted
       THEN /\ currentEmirate' = EventDetail /\ showAreas'
            /\ UNCHANGED <<gisInitialized, showEmirates, emiratesReqs>>
            /\ IF gisInitialized
                  /\ (currentEmirate' # currentEmirate \/ ~showAreas)
               THEN AreasRequestsStarted = {currentEmirate'}
               ELSE AreasRequestsStarted = {}
       ELSE UNCHANGED pmVars]_vars

\* C22 witness: with the service initialized and the areas of one emirate
\* requested, an event for another emirate has been received and its request
\* is outstanding.
C22_EventRequested ==
  /\ mounted /\ gisInitialized /\ showAreas
  /\ dispatched = <<currentEmirate>>
  /\ \E r \in areasReqs : r.id = 2 /\ r.emirate = currentEmirate
  /\ \E r \in areasReqs : r.id = 1 /\ r.emirate # currentEmirate

\* The clusterers that hold markers: the one in clustererRef and the ones it
\* replaced.
ClusterersWithMarkers ==
  Len(gm_replaced)
    + (IF gm_clusterer # Null /\ gm_clusterer.markers # << >> THEN 1 ELSE 0)

\* C23: at most one MarkerClusterer holds markers; the clusterer in
\* clustererRef holds markers only while the map is loaded and markersRef is
\* non-empty, so none does after unmount; a clusterer that comes to hold
\* markers was made for the loaded map from a non-empty markersRef; and a
\* change of propertyMarkers leaves no marker in a replaced clusterer.
C23_OneClustererHoldsMarkers ==
  /\ [](ClusterersWithMarkers <= 1)
  /\ []((gm_clusterer # Null /\ gm_clusterer.markers # << >>) =>
          /\ gm_mapLoaded /\ gm_mapRef # 0 /\ GmMounted(GM)
          /\ gm_markersRef # << >>
          /\ gm_clusterer.map = gm_mapRef)
  /\ [][(gm_clusterer' # gm_clusterer /\ gm_clusterer' # Null
           /\ gm_clusterer'.markers # << >>) =>
          /\ gm_mapLoaded' /\ gm_clusterer'.map = gm_mapRef'
          /\ gm_clusterer'.markers = gm_markersRef']_vars
  /\ [][(gm_propertyMarkers' # gm_propertyMarkers) =>
          gm_replaced' = << >>]_vars

\* C23 witness: propertyMarkers has been replaced by an empty list after a
\* clusterer was made for the first one; clustererRef holds the clusterer
\* made at the replacement and the replaced one holds no marker.
C23_ClustererReplaced ==
  /\ gm_mapLoaded /\ gm_propertyMarkers # Null
  /\ gm_propertyMarkers.properties = << >>
  /\ gm_clusterer # Null /\ Len(gm_clusterer.markers) = 1
  /\ gm_replaced = << >>

\* C24: selectedProperty is null iff selectedPropertyId is null, and
\* otherwise selectedProperty.id is selectedPropertyId.
C24_SelectionAgrees ==
  IF gm_selectedProperty = Null THEN gm_selectedPropertyId = NoId
  ELSE gm_selectedProperty.id = gm_selectedPropertyId

\* The loads a step starts: every start of loadEmiratesBoundaries,
\* loadAreaBoundaries or loadGisLayers adds a call to the running ones, and
\* no step both starts and ends a call.
LoadStarted == Len(gm_runs') > Len(gm_runs)

\* C25: a boundary or GIS load is started only by a commit in which the map
\* is loaded (mapLoaded true, mapRef non-null) and gisInitialized is true,
\* which it is only after initialize() has resolved; once the map has been
\* unmounted no load is started.
C25_LoadsStartWhenReady ==
  /\ [][LoadStarted =>
          /\ gm_mapLoaded' /\ gm_mapRef' # 0
          /\ gm_gisInitialized' /\ gm_init' = "resolvedTrue"]_vars
  /\ [][(gm_mapRef = 0 /\ gm_maps > 0) => ~LoadStarted]_vars
  /\ [](gm_gisInitialized => gm_init = "resolvedTrue")

\* C25 witness: the map has been unmounted while a load started before was
\* still running.
C25_UnmountedDuringLoad ==
  /\ gm_maps > 0 /\ gm_mapRef = 0
  /\ gm_runs # << >>
  /\ gm_gisInitialized /\ gm_showEmirates

\* C26: every change of enabledLayers removes one id that was present or
\* appends one that was not; enabledLayers never holds an id twice; and
\* toggling any id twice in a row from the current value gives the same set
\* of enabled layers.
C26_ToggleKeepsSet ==
  /\ [](Cardinality(Range(gm_enabledLayers)) = Len(gm_enabledLayers))
  /\ [](\A id \in Range(GmLayerOrder) :
          Range(ToggledLayers(ToggledLayers(gm_enabledLayers, id), id))
            = Range(gm_enabledLayers))
  /\ [][(gm_enabledLayers' # gm_enabledLayers) =>
          \E id \in Range(GmLayerOrder) :
            IF id \in Range(gm_enabledLayers)
            THEN /\ Range(gm_enabledLayers') = Range(gm_enabledLayers) \ {id}
                 /\ Len(gm_enabledLayers') = Len(gm_enabledLayers) - 1
            ELSE gm_enabledLayers' = Append(gm_enabledLayers, id)]_vars

\* C26 witness: both layers have been toggled on, zoning first.
C26_BothToggledOn ==
  /\ gm_enabledLayers = <<"zoning", "parcels">>
  /\ gm_mapLoaded /\ gm_gisInitialized


\* C27: the service is constructed and initialize() called at most once,
\* whatever the later changes of apiKey; gisInitialized changes only when
\* that call settles, and is then the value it resolved with, or false after
\* a rejection.
C27_OneServiceInitialization ==
  /\ [](gm_initCalls <= 1)
  /\ []((gm_initCalls = 0) <=> (gm_service = "none"))
  /\ [][(gm_service # "none") => UNCHANGED <<gm_service, gm_initCalls>>]_vars
  /\ [][(gm_gisInitialized' # gm_gisInitialized) => gm_init = "pending"]_vars
  /\ [][(gm_init = "pending" /\ gm_init' # "pending" /\ GmMounted(GM)) =>
          gm_gisInitialized' = (gm_init' = "resolvedTrue")]_vars
  /\ [](gm_gisInitialized => gm_init = "resolvedTrue")

\* C27 witness: the apiKey has changed after the service was constructed
\* with the first one and initialized.
C27_KeyChangedAfterInitialization ==
  /\ gm_isLoaded /\ gm_apiKey = "key2"
  /\ gm_initCalls = 1 /\ gm_init = "resolvedTrue" /\ gm_gisInitialized

\* The legend of the property types (part_000:127-147): the class of the
\* swatch of each entry, and the colour Tailwind's default palette gives it.
LegendSwatch ==
  [Residential |-> "bg-blue-500", Commercial |-> "bg-emerald-500",
   Industrial |-> "bg-orange-500", Land |-> "bg-lime-500",
   SoldRented |-> "bg-gray-500"]
SwatchColor(class) ==
  CASE class = "bg-blue-500" -> "#3b82f6"
    [] class = "bg-emerald-500" -> "#10b981"
    [] class = "bg-orange-500" -> "#f97316"
    [] class = "bg-lime-500" -> "#84cc16"
    [] class = "bg-gray-500" -> "#6b7280"

\* v is the string word, whatever the case of its letters.
IsWord(v, word) ==
  /\ v \notin {Null, Undefined}
  /\ Len(v.chars) = Len(word)
  /\ \A i \in DOMAIN word :
        \/ v.chars[i] = word[i]
        \/ \E k \in DOMAIN LowerCase :
              LowerCase[k] = word[i] /\ UpperCase[k] = v.chars[i]

\* The legend entry the claim gives a property.
LegendEntry(p) ==
  IF IsWord(p.status, <<"s", "o", "l", "d">>)
       \/ IsWord(p.status, <<"r", "e", "n", "t", "e", "d">>)
  THEN "SoldRented"
  ELSE IF IsWord(p.type, <<"c", "o", "m", "m", "e", "r", "c", "i", "a", "l">>)
  THEN "Commercial"
  ELSE IF IsWord(p.type, <<"i", "n", "d", "u", "s", "t", "r", "i", "a", "l">>)
  THEN "Industrial"
  ELSE IF IsWord(p.type, <<"l", "a", "n", "d">>) THEN "Land"
  ELSE "Residential"

\* C28: the icon of a marker has the colour of the legend entry of its
\* property (gray for sold or rented in any case, else emerald, orange or lime
\* for commercial, industrial or land, else blue), and scale 10 when the id
\* of the property is selectedPropertyId and 8 otherwise.
C28_IconAsLegend ==
  /\ icon_icon.fillColor = SwatchColor(LegendSwatch[LegendEntry(icon_property)])
  /\ icon_icon.scale = IF icon_property.id = icon_selectedPropertyId
                       THEN 10 ELSE 8

\* C28 witness: the selected property is a sold industrial one, both words in
\* other cases, and its marker is gray with scale 10.
C28_SoldIndustrialSelected ==
  /\ icon_property.type = Chars(<<"I", "N", "D", "U", "S", "T", "R", "I", "A", "L">>)
  /\ icon_property.status = Chars(<<"S", "o", "l", "d">>)
  /\ icon_selectedPropertyId = icon_property.id
  /\ icon_icon = [fillColor |-> "#6b7280", scale |-> 10]

\* The properties of a context object when they are an array.
ArrayOf(object) ==
  IF object # Null /\ object.properties \in
       {JsArray(<< >>), JsArray(<<P1>>), JsArray(<<P2>>), JsArray(<<P1, P2>>)}
  THEN {object.properties.items} ELSE {}

\* C29: the list displayed is propertyMarkers.properties when that is an
\* array, also an empty one, else searchResults.properties when that is an
\* array, else empty; and 'no results' is reported only when that list is
\* empty and isLoading is false.
C29_MarkersBeforeSearch ==
  /\ list_view = "map" =>
       /\ list_displayProperties \in
            (IF ArrayOf(list_propertyMarkers) # {}
             THEN ArrayOf(list_propertyMarkers)
             ELSE IF ArrayOf(list_searchResults) # {}
             THEN ArrayOf(list_searchResults)
             ELSE {<< >>})
       /\ list_noResults <=> (list_displayProperties = << >> /\ ~list_isLoading)
  /\ list_overlay = "noResults" =>
       /\ list_view = "map" /\ list_displayProperties = << >>
       /\ ~list_isLoading

\* C29 witness: the marker result is empty while the search results hold a
\* property, and 'no results' is reported.
C29_EmptyMarkersWin ==
  /\ list_propertyMarkers = ListObject(JsArray(<< >>))
  /\ list_searchResults = ListObject(JsArray(<<P1>>))
  /\ ~list_isLoading
  /\ list_displayProperties = << >> /\ list_overlay = "noResults"

====
